---- MODULE Spec2Model ----
(***************************************************************************)
(* Verification model of rtc.io (@rtcio/core):                             *)
(*   - BinaryChunker   (packages/core/src/p2pConnection/binaryData.ts)     *)
(*   - RTC manager     (packages/core/src/manager.ts)                      *)
(*   - P2PConnection   (packages/core/src/p2pConnection/index.ts)          *)
(* Time is counted in ticks; one tick is the resolution of the data        *)
(* timeout.  Frames are sequences of byte values, laid out as on the wire. *)
(***************************************************************************)
EXTENDS Integers, Sequences, FiniteSets, TLC

\* ------------------------------------------------------------------------
\* Bounds of the model
\* ------------------------------------------------------------------------
MaxLen == 2

\* The longest buffer handed to sendRaw
MaxSendLen == 6

\* The most occurrences of an event that a session handles
MaxOccurrences == 2

\* The most registrations of one listener with once
MaxRegistrations == 2
DataTimeoutTicks == 2
MaxTransitions == 5
MaxCloseCalls == 2

\* The most frames of a transfer that are handed to receiveChunk a second time
MaxDuplicates == 1

\* The longest source handed to streamData
MaxStreamLen == 10

\* The most bytes one read of a source stream returns
MaxReadSize == 3

\* How far below and above the header size the requested frame sizes reach
MaxSizeOffset == 2

\* ------------------------------------------------------------------------
\* Program constants
\* ------------------------------------------------------------------------
HEADER_BYTE_SIZE == 21

\* ------------------------------------------------------------------------
\* Generic helpers
\* ------------------------------------------------------------------------
Min(a, b) == IF a < b THEN a ELSE b

SetMax(S) == CHOOSE x \in S : \A y \in S : y <= x

None == [isSome |-> FALSE]

Some(v) == [isSome |-> TRUE, value |-> v]

\* JavaScript sparse arrays: a function whose domain is the set of filled
\* indices (0-based).
EmptyArr == [i \in {} |-> <<>>]

ArrLen(a) == IF DOMAIN a = {} THEN 0 ELSE SetMax(DOMAIN a) + 1

\* (mutant) the value is pushed behind the last element, whatever the index
ArrPush(a, i, v) ==
  [j \in (DOMAIN a) \cup {ArrLen(a)} |-> IF j = ArrLen(a) THEN v ELSE a[j]]

\* a[i] = v; an assignment to a negative index creates a plain property and
\* leaves the array elements alone.
ArrSet(a, i, v) ==
  IF i < 0 THEN a
  ELSE [j \in (DOMAIN a) \cup {i} |-> IF j = i THEN v ELSE a[j]]

\* Array.prototype.shift
ArrShift(a) == [j \in {k - 1 : k \in (DOMAIN a) \ {0}} |-> a[j + 1]]

ArrHasHoles(a) == DOMAIN a # 0..(ArrLen(a) - 1)

RECURSIVE ConcatFrom(_, _)
ConcatFrom(a, i) ==
  IF i >= ArrLen(a) THEN <<>> ELSE a[i] \o ConcatFrom(a, i + 1)

\* concatBuffers(...buffers) of a hole-free array
concatBuffers(a) == ConcatFrom(a, 0)

\* ------------------------------------------------------------------------
\* Transfer identifiers and the 21-byte header
\* ------------------------------------------------------------------------
Ids == {"a1", "b2"}

\* uuidToBytes: the 16 bytes of a transfer's uuid
uuidToBytes(id) ==
  IF id = "a1" THEN [i \in 1..16 |-> 161] ELSE [i \in 1..16 |-> 178]

\* (mutant) every frame is filed under the same key
bytesToIdSameKey(bytes) == "a1"

\* bytesToId: the receiver's key for the first 16 bytes of a frame
bytesToId(bytes) ==
  IF \E id \in Ids : uuidToBytes(id) = bytes
  THEN CHOOSE id \in Ids : uuidToBytes(id) = bytes
  ELSE "unknown"

\* DataView.setUint32(16, chunkIndex, false): the four bytes of the index,
\* most significant first (every index of the model is below 2^31).
U32BE(n) ==
  << (n \div 16777216) % 256, (n \div 65536) % 256, (n \div 256) % 256, n % 256 >>

buildHeader(fileId, chunkIndex, isLast) ==
  fileId \o U32BE(chunkIndex) \o << IF isLast THEN 1 ELSE 0 >>

parseHeaderFromBuffer(chunk) ==
  [ id         |-> bytesToId(SubSeq(chunk, 1, 16)),
    chunkIndex |-> chunk[17] * 16777216 + chunk[18] * 65536 + chunk[19] * 256 + chunk[20],
    isFinal    |-> chunk[21] # 0 ]

\* chunk.slice(HEADER_BYTE_SIZE)
Payload(chunk) == SubSeq(chunk, HEADER_BYTE_SIZE + 1, Len(chunk))

\* ------------------------------------------------------------------------
\* Metadata: JSON.stringify / JSON.parse on the values the model sends.
\* "null" is JavaScript null (also what an absent metadata is sent as).
\* ------------------------------------------------------------------------
MetaValues == {"null", "obj"}

\* The metadata of a file, as sendFile builds it: an object with the
\* reserved key _internalIsFile
FileMetadata == "file"

\* The optional parameter metadata when the caller leaves it out
Undefined == "undefined"

\* The JSON values of the model: null, an object, a string and the metadata
\* of a file
JsonValues == MetaValues \cup {"str", FileMetadata}

\* UTF-8 bytes of JSON.stringify(metadata):  null,  {"k":1},  "k"  and
\* {"_internalIsFile":true}
JsonStringify(m) ==
  IF m = "null" THEN << 110, 117, 108, 108 >>
  ELSE IF m = "obj" THEN << 123, 34, 107, 34, 58, 49, 125 >>
  ELSE IF m = "str" THEN << 34, 107, 34 >>
  ELSE << 123, 34, 95, 105, 110, 116, 101, 114, 110, 97, 108, 73, 115, 70, 105, 108,
          101, 34, 58, 116, 114, 117, 101, 125 >>

buildMetadata(metadata, fileId) ==
  buildHeader(fileId, 0, FALSE) \o JsonStringify(metadata)

\* (mutant) a null is kept as a value
parseMetadataKeepsNull(bytes) ==
  IF \E m \in JsonValues : JsonStringify(m) = bytes
  THEN Some(CHOOSE v \in JsonValues : JsonStringify(v) = bytes)
  ELSE None

\* option.unknown(JSON.parse(decoded)); a parse failure and null are None
parseMetadata(bytes) ==
  IF \E m \in JsonValues : JsonStringify(m) = bytes
  THEN LET m == CHOOSE v \in JsonValues : JsonStringify(v) = bytes
       IN IF m = "null" THEN None ELSE Some(m)
  ELSE None

\* metadataIsForFile: an object that has the key _internalIsFile
metadataIsForFile(m) == m = FileMetadata

\* ------------------------------------------------------------------------
\* Sender: streamData / chunkData
\* st = [staged, chunkIndex, out]; staged holds the bytes copied into the
\* staging buffer behind the header (bufferCursor = 21 + Len(staged)).
\* ------------------------------------------------------------------------
RECURSIVE InnerLoop(_, _, _, _, _)
InnerLoop(F, idB, value, valueCursor, st) ==
  IF valueCursor >= Len(value) THEN st
  ELSE LET spaceInBuffer == F - (HEADER_BYTE_SIZE + Len(st.staged))
           dataLeftInBytes == Len(value) - valueCursor
           bytesToCopy == Min(spaceInBuffer, dataLeftInBytes)
           staged2 == st.staged \o SubSeq(value, valueCursor + 1, valueCursor + bytesToCopy)
           st2 == IF HEADER_BYTE_SIZE + Len(staged2) = F
                  THEN [ staged |-> <<>>,
                         chunkIndex |-> st.chunkIndex + 1,
                         out |-> Append(st.out, buildHeader(idB, st.chunkIndex, FALSE) \o staged2) ]
                  ELSE [st EXCEPT !.staged = staged2]
       IN InnerLoop(F, idB, value, valueCursor + bytesToCopy, st2)

RECURSIVE ReadLoop(_, _, _, _, _)
ReadLoop(F, idB, values, i, st) ==
  IF i > Len(values) \/ Len(values[i]) < 1 THEN st
  ELSE ReadLoop(F, idB, values, i + 1, InnerLoop(F, idB, values[i], 0, st))

\* metadata ?? null (line 139)
OrNull(metadata) == IF metadata = Undefined THEN "null" ELSE metadata

\* (mutant) nothing is sent behind the full frames when the staging buffer
\* is empty at the end of a source that had bytes
streamDataNoEmptyFinal(values, metadata, F, idB) ==
  LET st == ReadLoop(F, idB, values, 1,
                     [staged |-> <<>>, chunkIndex |-> 1, out |-> <<>>])
      last == buildHeader(idB, st.chunkIndex, TRUE) \o st.staged
  IN << buildMetadata(OrNull(metadata), idB) >>
     \o (IF st.staged = << >> /\ st.out # << >> THEN st.out ELSE Append(st.out, last))

streamData(values, metadata, F, idB) ==
  LET st == ReadLoop(F, idB, values, 1,
                     [staged |-> <<>>, chunkIndex |-> 1, out |-> <<>>])
      last == buildHeader(idB, st.chunkIndex, TRUE) \o st.staged
  IN << buildMetadata(OrNull(metadata), idB) >> \o Append(st.out, last)

chunkData(dataToChunk, metadata, F, idB) ==
  streamData(<< dataToChunk >>, metadata, F, idB)

\* ------------------------------------------------------------------------
\* State
\* ------------------------------------------------------------------------
VARIABLES
  maxChunkSize,   \* BinaryChunker._maxChunkSize
  data,           \* per transfer: the buffer handed to chunkData
  meta,           \* per transfer: the metadata handed to chunkData
  sent,           \* the transfers that are sent to this chunker
  sending,        \* per transfer: the position of its sendRaw call
  frames,         \* per transfer: the frames chunkData yields for it
  inFlight,       \* per transfer: positions of the frames not yet received
  chunks,         \* BinaryChunker._chunks  (PendingAssembly per id)
  streams,        \* BinaryChunker._streams (PendingStream per id)
  stream,         \* per transfer: the ReadableStream of its nth (latest) promotion
  promoteRet,     \* per transfer: outcome of the last setDataIsStream call
  ret,            \* return value of the last receiveChunk call
  timedOut,       \* per transfer: number of onDataTimeout(id) calls
  sinceFrame,     \* per transfer: ticks since its most recent frame
  outOfOrder,     \* per transfer: a frame arrived after a later one of that transfer
  assembled,      \* per transfer: the buffers receiveChunk has returned for it
  seen,           \* per transfer: the chunk indices receiveChunk was called with
                  \* since it last returned data for the transfer
  arrivals        \* per transfer: number of receiveChunk calls made with its frames

chunkerVars == << maxChunkSize, data, meta, sent, sending, frames, inFlight, chunks, streams, stream,
                  promoteRet, ret, timedOut, sinceFrame, outOfOrder, assembled, seen, arrivals >>

\* --- RTC manager, one per side of a negotiation ---
VARIABLES
  pendingPeers,             \* RTC._pendingPeers: the PeerState kept for the remote id
  connectedPeers,           \* RTC._connectedPeers has the remote id
  connectionState,          \* RTCPeerConnection.connectionState
  readyState,               \* RTCDataChannel.readyState of the two channels
  onconnectionstatechange,  \* the handler registered on the connection
  ondatachannel,            \* connection.ondatachannel is set
  onopen,                   \* per channel: the waiting invocation its onopen resolves
  waiting,                  \* per invocation of the handler: the channels it awaits
  signal,                   \* the offer and the answer on their way through the Signaler
  exchange,                 \* per manager: the offer it sent and the answer to it
  calls,                    \* per side: listener rounds and sessions constructed
  result,                   \* per side: result of the last connectToPeer / accept
  transitions               \* per side: number of connection state changes so far

connectVars == << pendingPeers, connectedPeers, connectionState, readyState,
                  onconnectionstatechange, ondatachannel, onopen, waiting, signal, exchange,
                  calls, result, transitions >>

\* --- P2PConnection: the session of the offerer ---
VARIABLES
  onclose,              \* per channel: the close() call whose handler is its onclose
  closeCalls,           \* per call of close(): where it is, and its resolved promises
  queued,               \* close events the platform has yet to dispatch
  calledCloseHandlers,  \* P2PConnection._calledCloseHandlers
  delivered             \* connectionClosed rounds, manager cleanups, goodbyes

sessionVars == << onclose, closeCalls, queued, calledCloseHandlers, delivered >>

\* --- P2PConnection: listeners and the events raised for them ---
VARIABLES
  events,         \* P2PConnection._events: per event, the persistent listeners
  oneShotEvents,  \* P2PConnection._oneShotEvents: per event, the one-shot listeners
  raised,         \* per transfer: the file, data and fileStream deliveries made
  handling,       \* the callHandlers invocations, in the order of arrival of their
                  \* messages, each with its position and the listeners it invoked
  called,         \* per listener: how many times it has been invoked
  armed,          \* per listener: how many times once() has registered it
  removed         \* per event: the listeners off() was called for and that were
                  \* not registered again since

eventVars == << events, oneShotEvents, raised, handling, called, armed, removed >>

\* --- RTC manager: its peers and the subscriptions made for them ---
VARIABLES
  peers,          \* per remote identity: where the manager holds it
  subscriptions,  \* the listeners registered under the peers' AbortSignals
  applied         \* per remote identity: the signaling applied to its connection

scopeVars == << peers, subscriptions, applied >>

\* --- The application that holds the chunker ---
VARIABLES
  instance,       \* the outcome of new BinaryChunker({ maxChunkSize })
  readSize,       \* the number of bytes each read of a source stream returns
  handed          \* per transfer: the calls of fileStream listeners, each with
                  \* the metadata and the stream that was passed

appVars == << instance, readSize, handed >>

\* The byte sequence each transfer draws its buffer from (all bytes differ,
\* so that a misplaced or foreign chunk shows in the assembled data).
BaseData(id) == IF id = "a1" THEN << 1, 2, 3, 4 >> ELSE << 6, 7, 8, 9 >>

\* The first transfer carries 0, MaxLen - 1 or MaxLen bytes, the second one byte
Buffers(id) ==
  IF id = "a1" THEN { SubSeq(BaseData(id), 1, n) : n \in {0, MaxLen - 1, MaxLen} }
  ELSE { SubSeq(BaseData(id), 1, 1) }

FrameSizes == { HEADER_BYTE_SIZE + 1, HEADER_BYTE_SIZE + 2 }

\* The frames of transfer id, in the order the generator yielded them
Frames(id) == frames[id]

MapDelete(m, k) == [j \in (DOMAIN m) \ {k} |-> m[j]]

MapSet(m, k, v) == [j \in (DOMAIN m) \cup {k} |-> IF j = k THEN v ELSE m[j]]

NoReturn == [id |-> "none", data |-> None, metadata |-> None,
             isStream |-> FALSE, threw |-> FALSE]

\* A sendRaw call that has not been made; next is the position of the next
\* frame to write to the channel
IdleSend == [pc |-> "idle", next |-> 1, timedOut |-> FALSE]

\* A sendRaw call that has written all n frames and returned success
SentAll(n) == [pc |-> "ok", next |-> n + 1, timedOut |-> FALSE]

\* The positions of the frames of transfer t that have been received
Received(t) == IF t \in sent THEN (1..(sending[t].next - 1)) \ inFlight[t] ELSE {}

\* The chunker after construction; the transfers in sent are on their way
ChunkerInitWith(toSend, metas) ==
  /\ maxChunkSize \in FrameSizes
  /\ sent = toSend
  /\ data \in [Ids -> UNION { Buffers(id) : id \in Ids }]
  /\ \A id \in Ids : data[id] \in Buffers(id)
  /\ meta \in [Ids -> metas \cup {"null"}]
  /\ meta["b2"] = "null"
  /\ frames = [id \in Ids |-> chunkData(data[id], meta[id], maxChunkSize, uuidToBytes(id))]
  /\ sending = [id \in Ids |-> IF id \in toSend THEN SentAll(Len(frames[id])) ELSE IdleSend]
  /\ inFlight = [id \in Ids |-> IF id \in toSend THEN 1..Len(Frames(id)) ELSE {}]
  /\ chunks = [i \in {} |-> None]
  /\ streams = [i \in {} |-> None]
  /\ stream = [id \in Ids |-> [state |-> "none", out |-> <<>>, nth |-> 0]]
  /\ promoteRet = [id \in Ids |-> "none"]
  /\ ret = NoReturn
  /\ timedOut = [id \in Ids |-> 0]
  /\ sinceFrame = [id \in Ids |-> 0]
  /\ outOfOrder = [id \in Ids |-> FALSE]
  /\ assembled = [id \in Ids |-> <<>>]
  /\ seen = [id \in Ids |-> {}]
  /\ arrivals = [id \in Ids |-> 0]

\* The chunker was constructed with the frame size it works with
AppInit ==
  /\ instance = [state |-> "constructed", requested |-> Some(maxChunkSize)]
  /\ readSize = 1
  /\ handed = [id \in Ids |-> << >>]

\* The chunker with transfers that carry plain metadata or none
ChunkerInit(toSend) == ChunkerInitWith(toSend, MetaValues)

\* ------------------------------------------------------------------------
\* receiveChunk, buffered route (binaryData.ts 320-407)
\* ------------------------------------------------------------------------
\* createCleanupTimeout: clear the current timer and start a new one
createCleanupTimeout == DataTimeoutTicks

\* The PendingAssembly after the frame has been stored (lines 343-374)
StoreChunk(chunk, header) ==
  LET e0 == IF header.id \in DOMAIN chunks
            THEN [chunks[header.id] EXCEPT !.cleanupTimeout = createCleanupTimeout]
            ELSE [ metadata |-> None, buffers |-> EmptyArr, hasFinal |-> FALSE,
                   totalExpectedSize |-> 0, cleanupTimeout |-> createCleanupTimeout ]
      e1 == IF header.chunkIndex = 0
            THEN [e0 EXCEPT !.metadata = parseMetadata(Payload(chunk))]
            ELSE e0
      e2 == [e1 EXCEPT !.buffers = ArrSet(@, header.chunkIndex, Payload(chunk))]
  IN IF header.isFinal
     THEN [e2 EXCEPT !.hasFinal = TRUE, !.totalExpectedSize = header.chunkIndex + 1]
     ELSE e2

\* (mutant) the final frame completes the transfer, whatever is missing
IsCompleteOnFinal(e) == e.hasFinal

\* The completion test of lines 376-380
IsComplete(e) == e.hasFinal /\ Cardinality(DOMAIN e.buffers) = e.totalExpectedSize

\* _chunks and the return value after a frame on the buffered route
\* (lines 343-407)
AfterBuffered(chunk, header) ==
  LET e == StoreChunk(chunk, header)
      transfer == ArrShift(e.buffers)
  IN IF IsComplete(e)
     THEN IF ArrHasHoles(transfer)
          THEN \* concatBuffers reads byteLength of a hole and throws
               [ chunks |-> MapSet(chunks, header.id, [e EXCEPT !.buffers = transfer]),
                 ret |-> [NoReturn EXCEPT !.id = header.id, !.threw = TRUE] ]
          ELSE [ chunks |-> MapDelete(chunks, header.id),
                 ret |-> [ id |-> header.id, data |-> Some(concatBuffers(transfer)),
                           metadata |-> e.metadata, isStream |-> FALSE,
                           threw |-> FALSE ] ]
     ELSE [ chunks |-> MapSet(chunks, header.id, e),
            ret |-> [ id |-> header.id, data |-> None, metadata |-> e.metadata,
                      isStream |-> FALSE, threw |-> FALSE ] ]

ReceiveBuffered(chunk, header) ==
  /\ chunks' = AfterBuffered(chunk, header).chunks
  /\ ret' = AfterBuffered(chunk, header).ret

\* ------------------------------------------------------------------------
\* receiveChunk, stream route: handleStream (binaryData.ts 410-453)
\* ------------------------------------------------------------------------
\* (mutant) every chunk that is held is enqueued, gaps or not
RECURSIVE DrainAcrossGaps(_)
DrainAcrossGaps(d) ==
  IF DOMAIN d.buffers # {}
  THEN DrainAcrossGaps([ buffers |-> ArrShift(d.buffers),
                         currentChunkIndex |-> d.currentChunkIndex + 1,
                         out |-> IF 0 \in DOMAIN d.buffers
                                 THEN Append(d.out, d.buffers[0]) ELSE d.out ])
  ELSE d

\* while (buffers[0]) { enqueue(buffers.shift()); currentChunkIndex++ }
\* on a readable stream.
RECURSIVE Drain(_)
Drain(d) ==
  IF 0 \in DOMAIN d.buffers
  THEN Drain([ buffers |-> ArrShift(d.buffers),
               currentChunkIndex |-> d.currentChunkIndex + 1,
               out |-> Append(d.out, d.buffers[0]) ])
  ELSE d

\* (mutant) the frame is stored by its index in the transfer, whatever has
\* been read from the buffer already
StoreStreamChunkAbsolute(s, dataNoHeader, header) ==
  LET s1 == IF header.isFinal
            THEN [s EXCEPT !.hasFinal = TRUE, !.totalExpectedSize = header.chunkIndex]
            ELSE s
  IN [s1 EXCEPT !.buffers = ArrSet(@, header.chunkIndex - 1, dataNoHeader)]

\* streamObj after lines 418-423
StoreStreamChunk(s, dataNoHeader, header) ==
  LET s1 == IF header.isFinal
            THEN [s EXCEPT !.hasFinal = TRUE, !.totalExpectedSize = header.chunkIndex]
            ELSE s
  IN [s1 EXCEPT !.buffers = ArrSet(@, header.chunkIndex - s.currentChunkIndex, dataNoHeader)]

\* The timer of a stream after a frame that did not finish it (lines 435, 448)
ResetStreamTimeout(s) == DataTimeoutTicks

handleStream(dataNoHeader, header) ==
  LET id == header.id
      s2 == StoreStreamChunk(streams[id], dataNoHeader, header)
      readable == stream[id].state = "readable"
      d == Drain([ buffers |-> s2.buffers, currentChunkIndex |-> s2.currentChunkIndex,
                   out |-> stream[id].out ])
      s3 == [s2 EXCEPT !.buffers = d.buffers, !.currentChunkIndex = d.currentChunkIndex]
  IN IF ~readable /\ 0 \in DOMAIN s2.buffers
     THEN \* controller.enqueue throws on a stream that is no longer readable,
          \* after the first shift and before the timer is touched
          /\ streams' = MapSet(streams, id, [s2 EXCEPT !.buffers = ArrShift(@)])
          /\ stream' = stream
          /\ ret' = [NoReturn EXCEPT !.id = id, !.threw = TRUE]
     ELSE IF s3.hasFinal /\ ArrLen(s3.buffers) = 0
          THEN IF readable
               THEN /\ streams' = MapDelete(streams, id)
                    /\ stream' = [stream EXCEPT ![id].state = "closed", ![id].out = d.out]
                    /\ ret' = [NoReturn EXCEPT !.id = id, !.isStream = TRUE]
               ELSE \* controller.close throws; the timer has been cleared
                    /\ streams' = MapSet(streams, id, [s3 EXCEPT !.cleanupTimeout = -1])
                    /\ stream' = stream
                    /\ ret' = [NoReturn EXCEPT !.id = id, !.threw = TRUE]
          ELSE /\ streams' = MapSet(streams, id,
                                    [s3 EXCEPT !.cleanupTimeout = ResetStreamTimeout(s3)])
               /\ stream' = [stream EXCEPT ![id].out = d.out]
               /\ ret' = [NoReturn EXCEPT !.id = id, !.isStream = TRUE]

\* receiveChunk(chunk): the frame at position k of transfer t arrives
receiveChunk(t, k) ==
  LET chunk == Frames(t)[k]
      header == parseHeaderFromBuffer(chunk)
  IN /\ k \in inFlight[t]
     /\ inFlight' = [inFlight EXCEPT ![t] = @ \ {k}]
     /\ sinceFrame' = [sinceFrame EXCEPT ![header.id] = 0]
     /\ outOfOrder' = [outOfOrder EXCEPT ![t] = @ \/ \E j \in Received(t) : j > k]
     /\ IF header.id \in DOMAIN streams
        THEN /\ handleStream(Payload(chunk), header)
             /\ UNCHANGED chunks
        ELSE /\ ReceiveBuffered(chunk, header)
             /\ UNCHANGED << streams, stream >>
     /\ assembled' = IF ret'.data.isSome
                     THEN [assembled EXCEPT ![header.id] = Append(@, ret'.data.value)]
                     ELSE assembled
     /\ seen' = [seen EXCEPT ![header.id] =
                  IF ret'.data.isSome THEN {} ELSE @ \cup {header.chunkIndex}]
     /\ arrivals' = [arrivals EXCEPT ![t] = @ + 1]
     /\ UNCHANGED << appVars, scopeVars, connectVars, sessionVars, eventVars >>
  /\ UNCHANGED << maxChunkSize, data, meta, sent, sending, frames, promoteRet, timedOut >>

\* The caller hands receiveChunk(chunk) (line 300) a frame of transfer t that
\* it has handed over before: position k is offered once more
duplicateFrame(t, k) ==
  /\ t \in sent
  /\ k \in Received(t)
  /\ arrivals[t] + Cardinality(inFlight[t]) < Len(frames[t]) + MaxDuplicates
  /\ inFlight' = [inFlight EXCEPT ![t] = @ \cup {k}]
  /\ UNCHANGED << maxChunkSize, data, meta, sent, sending, frames, chunks, streams, stream,
                  promoteRet, ret, timedOut, sinceFrame, outOfOrder, assembled, seen, arrivals >>
  /\ UNCHANGED << appVars, scopeVars, connectVars, sessionVars, eventVars >>

DuplicatesNext ==
  \/ \E k \in inFlight["a1"] : receiveChunk("a1", k)
  \/ \E k \in Received("a1") : duplicateFrame("a1", k)

\* ------------------------------------------------------------------------
\* setDataIsStream (binaryData.ts 215-298)
\* ------------------------------------------------------------------------
\* (mutant) the slot of the metadata frame stays in the array
mainStreamKeepsSlot(cs, id) ==
  IF id \in DOMAIN cs
  THEN [ started |-> TRUE,
         streams |-> MapSet(streams, id,
                 [ buffers |-> cs[id].buffers,
                   hasFinal |-> cs[id].hasFinal,
                   totalExpectedSize |-> cs[id].totalExpectedSize,
                   cleanupTimeout |-> DataTimeoutTicks,
                   currentChunkIndex |-> 1 ]),
         chunks |-> MapDelete(cs, id),
         stream |-> [stream EXCEPT ![id] = [state |-> "readable", out |-> <<>>,
                                            nth |-> @.nth + 1]],
         promoteRet |-> [promoteRet EXCEPT ![id] = "ok"] ]
  ELSE [ started |-> FALSE, streams |-> streams, chunks |-> cs, stream |-> stream,
         promoteRet |-> [promoteRet EXCEPT ![id] = "okNoState"] ]

\* What a call leaves behind when _chunks is cs: the start callback of the
\* new ReadableStream (lines 258-294) moves the PendingAssembly to _streams;
\* when there is none it fails, yet the caller gets result.ok(mainStream)
mainStream(cs, id) ==
  IF id \in DOMAIN cs
  THEN [ started |-> TRUE,
         streams |-> MapSet(streams, id,
                 [ buffers |-> ArrShift(cs[id].buffers),
                   hasFinal |-> cs[id].hasFinal,
                   totalExpectedSize |-> cs[id].totalExpectedSize,
                   cleanupTimeout |-> DataTimeoutTicks,
                   currentChunkIndex |-> 1 ]),
         chunks |-> MapDelete(cs, id),
         stream |-> [stream EXCEPT ![id] = [state |-> "readable", out |-> <<>>,
                                            nth |-> @.nth + 1]],
         promoteRet |-> [promoteRet EXCEPT ![id] = "ok"] ]
  ELSE [ started |-> FALSE, streams |-> streams, chunks |-> cs, stream |-> stream,
         promoteRet |-> [promoteRet EXCEPT ![id] = "okNoState"] ]

setDataIsStream(id) ==
  /\ ~mainStream(chunks, id).started => promoteRet[id] # "okNoState"
  /\ streams' = mainStream(chunks, id).streams
  /\ chunks' = mainStream(chunks, id).chunks
  /\ stream' = mainStream(chunks, id).stream
  /\ promoteRet' = mainStream(chunks, id).promoteRet
  /\ UNCHANGED << appVars, scopeVars, connectVars, sessionVars, eventVars >>
  /\ UNCHANGED << maxChunkSize, data, meta, sent, sending, frames, inFlight, ret, timedOut, sinceFrame, outOfOrder, assembled, seen, arrivals >>

\* The consumer cancels the stream: the cancel callback of lines 249-257
cancelStream(id) ==
  /\ stream[id].state = "readable"
  /\ stream' = [stream EXCEPT ![id].state = "cancelled"]
  /\ streams' = IF id \in DOMAIN streams THEN MapDelete(streams, id) ELSE streams
  /\ UNCHANGED << appVars, scopeVars, connectVars, sessionVars, eventVars >>
  /\ UNCHANGED << maxChunkSize, data, meta, sent, sending, frames, inFlight, chunks, promoteRet, ret,
                  timedOut, sinceFrame, outOfOrder, assembled, seen, arrivals >>

\* A transfer that may be promoted and cancelled while its frames arrive in
\* any order, some of them twice
StreamedNext ==
  \/ \E k \in inFlight["a1"] : receiveChunk("a1", k)
  \/ \E k \in Received("a1") : duplicateFrame("a1", k)
  \/ setDataIsStream("a1")
  \/ cancelStream("a1")

\* ------------------------------------------------------------------------
\* Timers
\* ------------------------------------------------------------------------
\* (mutant) the callback notifies but leaves the PendingAssembly in place
chunkTimeoutKeepsState(id) ==
  /\ id \in DOMAIN chunks
  /\ chunks[id].cleanupTimeout = 0
  /\ timedOut[id] < 3
  /\ timedOut' = [timedOut EXCEPT ![id] = @ + 1]
  /\ UNCHANGED << appVars, scopeVars, connectVars, sessionVars, eventVars >>
  /\ UNCHANGED << maxChunkSize, data, meta, sent, sending, frames, inFlight, chunks, streams, stream, promoteRet,
                  ret, sinceFrame, outOfOrder, assembled, seen, arrivals >>

\* The callback of createCleanupTimeout (lines 326-340)
chunkTimeout(id) ==
  /\ id \in DOMAIN chunks
  /\ chunks[id].cleanupTimeout = 0
  /\ chunks' = MapDelete(chunks, id)
  /\ timedOut' = [timedOut EXCEPT ![id] = @ + 1]
  /\ UNCHANGED << appVars, scopeVars, connectVars, sessionVars, eventVars >>
  /\ UNCHANGED << maxChunkSize, data, meta, sent, sending, frames, inFlight, streams, stream, promoteRet,
                  ret, sinceFrame, outOfOrder, assembled, seen, arrivals >>

\* What timeoutHandler leaves in _streams (lines 220-246)
StreamsAfterTimeout(id) == MapSet(streams, id, [streams[id] EXCEPT !.cleanupTimeout = -1])

timeoutHandler(id) ==
  /\ id \in DOMAIN streams
  /\ streams[id].cleanupTimeout = 0
  /\ streams' = StreamsAfterTimeout(id)
  /\ timedOut' = [timedOut EXCEPT ![id] = @ + 1]
  /\ stream' = IF stream[id].state = "readable"
               THEN [stream EXCEPT ![id].state = "errored"]
               ELSE stream
  /\ UNCHANGED << appVars, scopeVars, connectVars, sessionVars, eventVars >>
  /\ UNCHANGED << maxChunkSize, data, meta, sent, sending, frames, inFlight, chunks, promoteRet, ret,
                  sinceFrame, outOfOrder, assembled, seen, arrivals >>

\* One tick of time passes; a timer that is due fires before time moves on.
Tick ==
  /\ \A id \in DOMAIN chunks : chunks[id].cleanupTimeout > 0
  /\ \A id \in DOMAIN streams : streams[id].cleanupTimeout # 0
  /\ \E id \in Ids : sinceFrame[id] <= DataTimeoutTicks
  /\ chunks' = [id \in DOMAIN chunks |->
                  [chunks[id] EXCEPT !.cleanupTimeout = @ - 1]]
  /\ streams' = [id \in DOMAIN streams |->
                  [streams[id] EXCEPT !.cleanupTimeout = IF @ > 0 THEN @ - 1 ELSE @]]
  /\ sinceFrame' = [id \in Ids |-> Min(sinceFrame[id] + 1, DataTimeoutTicks + 1)]
  /\ UNCHANGED << appVars, scopeVars, connectVars, sessionVars, eventVars >>
  /\ UNCHANGED << maxChunkSize, data, meta, sent, sending, frames, inFlight, stream, promoteRet, ret, timedOut,
                  outOfOrder, assembled, seen, arrivals >>

\* ------------------------------------------------------------------------
\* new BinaryChunker(options) (binaryData.ts 80-100)
\* ------------------------------------------------------------------------
\* maxChunkSize = 1024 (line 81): the size used when the option is absent
DefaultMaxChunkSize == 1024

\* The maxChunkSize option: absent, or a number of bytes around the size of
\* the header
RequestedSizes ==
  {None} \cup { Some(n) : n \in (HEADER_BYTE_SIZE - MaxSizeOffset)..(HEADER_BYTE_SIZE + MaxSizeOffset) }

\* No chunker has been constructed; the application holds the buffer and
\* the metadata it wants to send
UnbuiltInit ==
  /\ instance = [state |-> "none", requested |-> None]
  /\ readSize = 1
  /\ handed = [id \in Ids |-> << >>]
  /\ maxChunkSize = 0
  /\ sent = {}
  /\ sending = [id \in Ids |-> IdleSend]
  /\ data \in [Ids -> UNION { Buffers(id) : id \in Ids }]
  /\ \A id \in Ids : data[id] \in Buffers(id)
  /\ meta \in [Ids -> MetaValues]
  /\ meta["b2"] = "null"
  /\ frames = [id \in Ids |-> << >>]
  /\ inFlight = [id \in Ids |-> {}]
  /\ chunks = [i \in {} |-> None]
  /\ streams = [i \in {} |-> None]
  /\ stream = [id \in Ids |-> [state |-> "none", out |-> <<>>, nth |-> 0]]
  /\ promoteRet = [id \in Ids |-> "none"]
  /\ ret = NoReturn
  /\ timedOut = [id \in Ids |-> 0]
  /\ sinceFrame = [id \in Ids |-> 0]
  /\ outOfOrder = [id \in Ids |-> FALSE]
  /\ assembled = [id \in Ids |-> <<>>]
  /\ seen = [id \in Ids |-> {}]
  /\ arrivals = [id \in Ids |-> 0]

\* (mutant) a frame size equal to the header size is let through
TooSmallBelowHeader(size) == size < HEADER_BYTE_SIZE

\* The test of line 86
TooSmall(size) == size <= HEADER_BYTE_SIZE

\* new BinaryChunker({ maxChunkSize: requested, onDataTimeout }): throws
\* (lines 86-90) or assigns _maxChunkSize (line 91)
construct(requested) ==
  LET size == IF requested.isSome THEN requested.value ELSE DefaultMaxChunkSize
  IN /\ instance.state = "none"
     /\ IF TooSmall(size)
        THEN /\ instance' = [state |-> "threw", requested |-> requested]
             /\ UNCHANGED maxChunkSize
        ELSE /\ instance' = [state |-> "constructed", requested |-> requested]
             /\ maxChunkSize' = size
     /\ UNCHANGED << data, meta, sent, sending, frames, inFlight, chunks, streams, stream,
                     promoteRet, ret, timedOut, sinceFrame, outOfOrder, assembled, seen, arrivals >>
     /\ UNCHANGED << readSize, handed, scopeVars, connectVars, sessionVars, eventVars >>

\* The application drains chunkData(data[t], meta[t]) of its chunker (lines
\* 111-124) and hands every frame to the receiving side
chunkDataAll(t) ==
  /\ instance.state = "constructed"
  /\ t \notin sent
  /\ sent' = sent \cup {t}
  /\ frames' = [frames EXCEPT ![t] =
                  chunkData(data[t], meta[t], maxChunkSize, uuidToBytes(t))]
  /\ sending' = [sending EXCEPT ![t] = SentAll(Len(frames'[t]))]
  /\ inFlight' = [inFlight EXCEPT ![t] = 1..Len(frames'[t])]
  /\ UNCHANGED << maxChunkSize, data, meta, chunks, streams, stream, promoteRet,
                  ret, timedOut, sinceFrame, outOfOrder, assembled, seen, arrivals >>
  /\ UNCHANGED << appVars, scopeVars, connectVars, sessionVars, eventVars >>

\* ------------------------------------------------------------------------
\* streamData on a source stream (binaryData.ts 126-213)
\* ------------------------------------------------------------------------
\* What the reads of a ReadableStream over bytes return when each read hands
\* over c bytes (the last one what is left); an empty source closes at once
RECURSIVE Reads(_, _)
Reads(bytes, c) ==
  IF Len(bytes) = 0 THEN << >>
  ELSE << SubSeq(bytes, 1, Min(c, Len(bytes))) >>
       \o Reads(SubSeq(bytes, Min(c, Len(bytes)) + 1, Len(bytes)), c)

\* The sources that are streamed: 1, 2, ..., n for every n up to MaxStreamLen
StreamSources == { [i \in 1..n |-> i] : n \in 0..MaxStreamLen }

\* A chunker that has sent nothing; the application holds a source
StreamSourceInit ==
  /\ maxChunkSize \in FrameSizes
  /\ instance = [state |-> "constructed", requested |-> Some(maxChunkSize)]
  /\ readSize \in 1..MaxReadSize
  /\ handed = [id \in Ids |-> << >>]
  /\ sent = {}
  /\ sending = [id \in Ids |-> IdleSend]
  /\ data \in [Ids -> StreamSources \cup Buffers("b2")]
  /\ data["a1"] \in StreamSources /\ data["b2"] \in Buffers("b2")
  /\ meta = [id \in Ids |-> "null"]
  /\ frames = [id \in Ids |-> << >>]
  /\ inFlight = [id \in Ids |-> {}]
  /\ chunks = [i \in {} |-> None]
  /\ streams = [i \in {} |-> None]
  /\ stream = [id \in Ids |-> [state |-> "none", out |-> <<>>, nth |-> 0]]
  /\ promoteRet = [id \in Ids |-> "none"]
  /\ ret = NoReturn
  /\ timedOut = [id \in Ids |-> 0]
  /\ sinceFrame = [id \in Ids |-> 0]
  /\ outOfOrder = [id \in Ids |-> FALSE]
  /\ assembled = [id \in Ids |-> <<>>]
  /\ seen = [id \in Ids |-> {}]
  /\ arrivals = [id \in Ids |-> 0]

\* The application drains streamData(source, meta[t]) over a stream of
\* data[t] and hands every frame to the receiving side
streamDataAll(t) ==
  /\ instance.state = "constructed"
  /\ t \notin sent
  /\ sent' = sent \cup {t}
  /\ frames' = [frames EXCEPT ![t] =
                  streamData(Reads(data[t], readSize), meta[t], maxChunkSize, uuidToBytes(t))]
  /\ sending' = [sending EXCEPT ![t] = SentAll(Len(frames'[t]))]
  /\ inFlight' = [inFlight EXCEPT ![t] = 1..Len(frames'[t])]
  /\ UNCHANGED << maxChunkSize, data, meta, chunks, streams, stream, promoteRet,
                  ret, timedOut, sinceFrame, outOfOrder, assembled, seen, arrivals >>
  /\ UNCHANGED << appVars, scopeVars, connectVars, sessionVars, eventVars >>

\* The frames arrive in the order they were written
StreamDataNext ==
  \/ streamDataAll("a1")
  \/ chunkDataAll("a1")
  \/ \E k \in inFlight["a1"] :
        (\A j \in inFlight["a1"] : k <= j) /\ receiveChunk("a1", k)

ConstructNext ==
  \/ \E requested \in RequestedSizes : construct(requested)
  \/ chunkDataAll("a1")
  \/ \E k \in inFlight["a1"] : receiveChunk("a1", k)

\* ------------------------------------------------------------------------
\* RTC: negotiation of a connection (manager.ts 757-1102)
\* ------------------------------------------------------------------------
Sides == {"offerer", "answerer"}

\* DATA_CHANNEL_GENERIC and DATA_CHANNEL_BINARY
Channels == {"data", "binary"}

\* No entry in _pendingPeers
NoPeerState == [present |-> FALSE, data |-> FALSE, binaryData |-> FALSE]

\* A PeerState; data and binaryData say whether the option holds a channel
PeerState(d, b) == [present |-> TRUE, data |-> d, binaryData |-> b]

NoHandler == [kind |-> "none", data |-> FALSE, binaryData |-> FALSE, call |-> 0]

\* The handler the P2PConnection constructor registers on the connection
SessionHandler == [kind |-> "session", data |-> FALSE, binaryData |-> FALSE, call |-> 0]

\* onConnectionStateChanged(peerId): the closure over the PeerState as it is
\* at the time of the call (lines 782-799)
onConnectionStateChanged(ps) ==
  IF ps.present
  THEN [kind |-> "manager", data |-> ps.data, binaryData |-> ps.binaryData, call |-> 0]
  ELSE [kind |-> "noop", data |-> FALSE, binaryData |-> FALSE, call |-> 0]

NoCalls == [connected |-> 0, connectionFailed |-> 0, sessions |-> 0]

\* Both managers after construction, before connectToPeer
ManagerInit ==
  /\ pendingPeers = [s \in Sides |-> NoPeerState]
  /\ connectedPeers = [s \in Sides |-> FALSE]
  /\ connectionState = [s \in Sides |-> "none"]
  /\ readyState = [s \in Sides |-> [ch \in Channels |-> "none"]]
  /\ onconnectionstatechange = [s \in Sides |-> NoHandler]
  /\ ondatachannel = [s \in Sides |-> FALSE]
  /\ onopen = [s \in Sides |-> [ch \in Channels |-> 0]]
  /\ waiting = [s \in Sides |-> << >>]
  /\ signal = [offer |-> "none", answer |-> "none"]
  /\ exchange = [s \in Sides |-> [offer |-> "none", answer |-> "none"]]
  /\ calls = [s \in Sides |-> NoCalls]
  /\ result = [s \in Sides |-> "none"]
  /\ transitions = [s \in Sides |-> 0]

\* sendOff (lines 807-860); pp is _pendingPeers[s] and oo the onopen handlers
\* of the two channels as the caller leaves them
sendOff(s, pp, oo) ==
  IF connectedPeers[s]
  THEN /\ pendingPeers' = [pendingPeers EXCEPT ![s] = pp]
       /\ onopen' = [onopen EXCEPT ![s] = oo]
       /\ UNCHANGED << connectedPeers, onconnectionstatechange, calls >>
  ELSE /\ onopen' = [onopen EXCEPT ![s] = [ch \in Channels |-> 0]]
       /\ pendingPeers' = [pendingPeers EXCEPT ![s] = NoPeerState]
       /\ connectedPeers' = [connectedPeers EXCEPT ![s] = TRUE]
       /\ onconnectionstatechange' = [onconnectionstatechange EXCEPT ![s] = SessionHandler]
       /\ calls' = [calls EXCEPT ![s].sessions = @ + 1, ![s].connected = @ + 1]

\* The channels the handler has to wait for (lines 880-881)
NotOpen(rs) == { ch \in Channels : rs[ch] # "open" }

\* The handler returned by onConnectionStateChanged runs (lines 862-923) as
\* closure h, with the connection in state cs and the channels in states rs.
\* It sets pendingPeers, connectedPeers, onconnectionstatechange, calls,
\* onopen and waiting.
StateChanged(s, h, cs, rs, pp) ==
  IF h.kind = "manager" /\ cs = "connected" /\ h.data /\ h.binaryData
  THEN IF NotOpen(rs) # {}
       THEN \* await Promise.all(connectData)
            /\ waiting' = [waiting EXCEPT ![s] = Append(@, NotOpen(rs))]
            /\ onopen' = [onopen EXCEPT ![s] =
                 [ch \in Channels |-> IF ch \in NotOpen(rs)
                                      THEN Len(waiting[s]) + 1 ELSE @[ch]]]
            /\ pendingPeers' = [pendingPeers EXCEPT ![s] = pp]
            /\ UNCHANGED << connectedPeers, onconnectionstatechange, calls >>
       ELSE /\ sendOff(s, pp, onopen[s])
            /\ UNCHANGED waiting
  ELSE /\ calls' = IF h.kind = "manager" /\ cs = "failed"
                   THEN [calls EXCEPT ![s].connectionFailed = @ + 1]
                   ELSE calls
       /\ pendingPeers' = [pendingPeers EXCEPT ![s] = pp]
       /\ UNCHANGED << connectedPeers, onconnectionstatechange, onopen, waiting >>

PendingOnly(s) == pendingPeers[s].present

\* this._pendingPeers.has(peerId) || this._connectedPeers.has(peerId)
\* (lines 930 and 1026)
PendingOrConnected(s) == pendingPeers[s].present \/ connectedPeers[s]

\* connectToPeer (lines 1025-1102), called on the offerer
connectToPeer(s) ==
  /\ s = "offerer"
  /\ IF PendingOrConnected(s)
     THEN /\ result' = [result EXCEPT ![s] = "err"]
          /\ UNCHANGED << pendingPeers, connectionState, readyState,
                          onconnectionstatechange, signal, exchange >>
     ELSE /\ pendingPeers' = [pendingPeers EXCEPT ![s] = PeerState(TRUE, TRUE)]
          /\ connectionState' = [connectionState EXCEPT ![s] = "new"]
          /\ readyState' = [readyState EXCEPT ![s] = [ch \in Channels |-> "connecting"]]
          /\ onconnectionstatechange' = [onconnectionstatechange EXCEPT ![s] =
                                           onConnectionStateChanged(PeerState(TRUE, TRUE))]
          /\ signal' = [signal EXCEPT !.offer = "sent"]
          /\ UNCHANGED exchange
          /\ result' = [result EXCEPT ![s] = "ok"]
  /\ UNCHANGED << connectedPeers, ondatachannel, onopen, waiting, calls, transitions >>
  /\ UNCHANGED << appVars, scopeVars, chunkerVars, sessionVars, eventVars >>

\* The Signaler hands the offer to the connectionRequest listeners (605-630)
setupListeners ==
  /\ signal.offer = "sent"
  /\ signal' = [signal EXCEPT !.offer = "delivered"]
  /\ UNCHANGED exchange
  /\ UNCHANGED << pendingPeers, connectedPeers, connectionState, readyState,
                  onconnectionstatechange, ondatachannel, onopen, waiting, calls,
                  result, transitions >>
  /\ UNCHANGED << appVars, scopeVars, chunkerVars, sessionVars, eventVars >>

\* request.accept(): acceptOffer (lines 926-1018), on the answerer
acceptOffer(s) ==
  /\ s = "answerer"
  /\ signal.offer = "delivered"
  /\ IF PendingOrConnected(s)
     THEN /\ result' = [result EXCEPT ![s] = "err"]
          /\ UNCHANGED << pendingPeers, connectionState, onconnectionstatechange,
                          ondatachannel, signal, exchange >>
     ELSE /\ pendingPeers' = [pendingPeers EXCEPT ![s] = PeerState(FALSE, FALSE)]
          /\ connectionState' = [connectionState EXCEPT ![s] = "new"]
          /\ ondatachannel' = [ondatachannel EXCEPT ![s] = TRUE]
          /\ onconnectionstatechange' = [onconnectionstatechange EXCEPT ![s] =
                                           onConnectionStateChanged(PeerState(FALSE, FALSE))]
          /\ signal' = [signal EXCEPT !.answer = "sent"]
          /\ UNCHANGED exchange
          /\ result' = [result EXCEPT ![s] = "ok"]
  /\ UNCHANGED << connectedPeers, readyState, onopen, waiting, calls, transitions >>
  /\ UNCHANGED << appVars, scopeVars, chunkerVars, sessionVars, eventVars >>

\* The answer reaches the offerer: onAnswer (lines 757-767)
onAnswer ==
  /\ signal.answer = "sent"
  /\ signal' = [signal EXCEPT !.answer = "delivered"]
  /\ UNCHANGED exchange
  /\ UNCHANGED << pendingPeers, connectedPeers, connectionState, readyState,
                  onconnectionstatechange, ondatachannel, onopen, waiting, calls,
                  result, transitions >>
  /\ UNCHANGED << appVars, scopeVars, chunkerVars, sessionVars, eventVars >>

\* The other of the two managers
Other(s) == IF s = "offerer" THEN "answerer" ELSE "offerer"

\* Manager s holds the connection that answered an offer: acceptOffer went
\* past its check (lines 936-1017)
Answering(s) ==
  \/ s = "answerer" /\ signal.answer # "none"
  \/ exchange[Other(s)].answer # "none"

\* Both descriptions are set on side s: it answered an offer, or the answer
\* to its own offer has arrived
Negotiated(s) ==
  /\ connectionState[s] # "none"
  /\ \/ Answering(s)
     \/ s = "offerer" /\ signal.answer = "delivered"
     \/ exchange[s].answer = "delivered"

\* The changes of RTCPeerConnection.connectionState short of closing
StateChanges ==
  { << "new", "connecting" >>, << "connecting", "connected" >>,
    << "connected", "disconnected" >>, << "disconnected", "connected" >>,
    << "connecting", "failed" >>, << "disconnected", "failed" >> }

\* The connection of side s changes state and the registered handler runs
connectionstatechange(s, cs) ==
  /\ Negotiated(s)
  /\ << connectionState[s], cs >> \in StateChanges
  /\ transitions[s] < MaxTransitions
  /\ transitions' = [transitions EXCEPT ![s] = @ + 1]
  /\ connectionState' = [connectionState EXCEPT ![s] = cs]
  /\ StateChanged(s, onconnectionstatechange[s], cs, readyState[s], pendingPeers[s])
  /\ UNCHANGED << readyState, ondatachannel, signal, exchange, result >>
  /\ UNCHANGED << appVars, scopeVars, chunkerVars, sessionVars, eventVars >>

\* connection.ondatachannel (lines 946-970): channel ch, in state rs, is
\* announced to the answerer
datachannel(s, ch, rs) ==
  /\ Answering(s)
  /\ Negotiated(s)
  /\ readyState[s][ch] = "none"
  /\ readyState' = [readyState EXCEPT ![s][ch] = rs]
  /\ IF ondatachannel[s]
     THEN LET ps == IF ch = "data"
                    THEN [pendingPeers[s] EXCEPT !.data = TRUE]
                    ELSE [pendingPeers[s] EXCEPT !.binaryData = TRUE]
          IN IF ps.data /\ ps.binaryData
             THEN /\ StateChanged(s, onConnectionStateChanged(ps), connectionState[s],
                                  readyState'[s], ps)
                  /\ ondatachannel' = [ondatachannel EXCEPT ![s] = FALSE]
             ELSE /\ pendingPeers' = [pendingPeers EXCEPT ![s] = ps]
                  /\ UNCHANGED << connectedPeers, onconnectionstatechange, onopen,
                                  waiting, calls, ondatachannel >>
     ELSE UNCHANGED << pendingPeers, connectedPeers, onconnectionstatechange, onopen,
                       waiting, calls, ondatachannel >>
  /\ UNCHANGED << connectionState, signal, exchange, result, transitions >>
  /\ UNCHANGED << appVars, scopeVars, chunkerVars, sessionVars, eventVars >>

\* Channel ch of side s opens; its onopen handler (lines 884-892) resolves
\* the promise of the invocation that set it, and an invocation whose
\* promises are all resolved goes on to sendOff (line 899)
channelOpen(s, ch) ==
  /\ Negotiated(s)
  /\ readyState[s][ch] = "connecting"
  /\ readyState' = [readyState EXCEPT ![s][ch] = "open"]
  /\ IF onopen[s][ch] = 0
     THEN UNCHANGED << pendingPeers, connectedPeers, onconnectionstatechange, onopen,
                       waiting, calls >>
     ELSE LET i == onopen[s][ch]
              left == waiting[s][i] \ {ch}
              oo == [onopen[s] EXCEPT ![ch] = 0]
          IN /\ waiting' = [waiting EXCEPT ![s][i] = left]
             /\ IF left = {}
                THEN sendOff(s, pendingPeers[s], oo)
                ELSE /\ onopen' = [onopen EXCEPT ![s] = oo]
                     /\ UNCHANGED << pendingPeers, connectedPeers,
                                     onconnectionstatechange, calls >>
  /\ UNCHANGED << connectionState, ondatachannel, signal, exchange, result, transitions >>
  /\ UNCHANGED << appVars, scopeVars, chunkerVars, sessionVars, eventVars >>

\* request.reject() on the RemoteOffer handed to a connectionRequest listener
\* (line 624): its body is empty.  The model records only that it was called.
reject ==
  /\ signal.offer = "delivered"
  /\ result' = [result EXCEPT !["answerer"] = "rejected"]
  /\ UNCHANGED << pendingPeers, connectedPeers, connectionState, readyState,
                  onconnectionstatechange, ondatachannel, onopen, waiting, signal, exchange,
                  calls, transitions >>
  /\ UNCHANGED << appVars, scopeVars, chunkerVars, sessionVars, eventVars >>

\* A request is answered with accept or with reject, not with both
RejectNext ==
  \/ connectToPeer("offerer")
  \/ setupListeners
  \/ result["answerer"] = "none" /\ reject
  \/ result["answerer"] # "rejected" /\ acceptOffer("answerer")
  \/ onAnswer
  \/ \E s \in Sides : \E cs \in {"connecting", "connected", "disconnected", "failed"} :
       connectionstatechange(s, cs)
  \/ \E s \in Sides : \E ch \in Channels : \E rs \in {"connecting", "open"} :
       datachannel(s, ch, rs)
  \/ \E s \in Sides : \E ch \in Channels : channelOpen(s, ch)

ConnectNext ==
  \/ \E s \in Sides : connectToPeer(s)
  \/ setupListeners
  \/ \E s \in Sides : acceptOffer(s)
  \/ onAnswer
  \/ \E s \in Sides : \E cs \in {"connecting", "connected", "disconnected", "failed"} :
       connectionstatechange(s, cs)
  \/ \E s \in Sides : \E ch \in Channels : \E rs \in {"connecting", "open"} :
       datachannel(s, ch, rs)
  \/ \E s \in Sides : \E ch \in Channels : channelOpen(s, ch)

\* --- Two managers that may each call connectToPeer for the other ---
\* Either manager of Sides may offer and may answer; exchange[s] is the
\* negotiation that manager s started.

\* connectToPeer (lines 1025-1102), called on manager s for the other one
connectToPeerAny(s) ==
  /\ IF PendingOrConnected(s)
     THEN /\ result' = [result EXCEPT ![s] = "err"]
          /\ UNCHANGED << pendingPeers, connectionState, readyState,
                          onconnectionstatechange, exchange >>
     ELSE /\ pendingPeers' = [pendingPeers EXCEPT ![s] = PeerState(TRUE, TRUE)]
          /\ connectionState' = [connectionState EXCEPT ![s] = "new"]
          /\ readyState' = [readyState EXCEPT ![s] = [ch \in Channels |-> "connecting"]]
          /\ onconnectionstatechange' = [onconnectionstatechange EXCEPT ![s] =
                                           onConnectionStateChanged(PeerState(TRUE, TRUE))]
          /\ exchange' = [exchange EXCEPT ![s].offer = "sent"]
          /\ result' = [result EXCEPT ![s] = "ok"]
  /\ UNCHANGED << connectedPeers, ondatachannel, onopen, waiting, signal, calls,
                  transitions >>
  /\ UNCHANGED << appVars, scopeVars, chunkerVars, sessionVars, eventVars >>

\* The Signaler hands the offer of manager s to the connectionRequest
\* listeners of the other manager (lines 605-630)
offerAny(s) ==
  /\ exchange[s].offer = "sent"
  /\ exchange' = [exchange EXCEPT ![s].offer = "delivered"]
  /\ UNCHANGED << pendingPeers, connectedPeers, connectionState, readyState,
                  onconnectionstatechange, ondatachannel, onopen, waiting, signal,
                  calls, result, transitions >>
  /\ UNCHANGED << appVars, scopeVars, chunkerVars, sessionVars, eventVars >>

\* request.accept() on manager s for the offer of the other manager:
\* acceptOffer (lines 926-1018)
acceptOfferAny(s) ==
  /\ exchange[Other(s)].offer = "delivered"
  /\ IF PendingOrConnected(s)
     THEN /\ result' = [result EXCEPT ![s] = "err"]
          /\ UNCHANGED << pendingPeers, connectionState, onconnectionstatechange,
                          ondatachannel, exchange >>
     ELSE /\ pendingPeers' = [pendingPeers EXCEPT ![s] = PeerState(FALSE, FALSE)]
          /\ connectionState' = [connectionState EXCEPT ![s] = "new"]
          /\ ondatachannel' = [ondatachannel EXCEPT ![s] = TRUE]
          /\ onconnectionstatechange' = [onconnectionstatechange EXCEPT ![s] =
                                           onConnectionStateChanged(PeerState(FALSE, FALSE))]
          /\ exchange' = [exchange EXCEPT ![Other(s)].answer = "sent"]
          /\ result' = [result EXCEPT ![s] = "ok"]
  /\ UNCHANGED << connectedPeers, readyState, onopen, waiting, signal, calls,
                  transitions >>
  /\ UNCHANGED << appVars, scopeVars, chunkerVars, sessionVars, eventVars >>

\* The answer to the offer of manager s reaches it: onAnswer (lines 757-767)
onAnswerAny(s) ==
  /\ exchange[s].answer = "sent"
  /\ exchange' = [exchange EXCEPT ![s].answer = "delivered"]
  /\ UNCHANGED << pendingPeers, connectedPeers, connectionState, readyState,
                  onconnectionstatechange, ondatachannel, onopen, waiting, signal,
                  calls, result, transitions >>
  /\ UNCHANGED << appVars, scopeVars, chunkerVars, sessionVars, eventVars >>

GlareNext ==
  \/ \E s \in Sides : connectToPeerAny(s)
  \/ \E s \in Sides : offerAny(s)
  \/ \E s \in Sides : acceptOfferAny(s)
  \/ \E s \in Sides : onAnswerAny(s)
  \/ \E s \in Sides : \E cs \in {"connecting", "connected", "disconnected", "failed"} :
       connectionstatechange(s, cs)
  \/ \E s \in Sides : \E ch \in Channels : \E rs \in {"connecting", "open"} :
       datachannel(s, ch, rs)
  \/ \E s \in Sides : \E ch \in Channels : channelOpen(s, ch)

\* ------------------------------------------------------------------------
\* P2PConnection: closing a session (p2pConnection/index.ts, latest version;
\* line numbers are those of src/unnamed/part_003:
\* constructor 109-186, handleStringData 341-362, onClosed 364-373,
\* sendClosed 514-543, close 644-695)
\* ------------------------------------------------------------------------
\* The side whose session is followed
Local == "offerer"

CloseCallIds == 1..MaxCloseCalls

\* A call of close() that has not been made yet
IdleCall == [pc |-> "idle", data |-> FALSE, binary |-> FALSE, conn |-> FALSE]

\* The handler close() registers on the connection (lines 678-684)
CloseHandler(c) == [kind |-> "close", data |-> FALSE, binaryData |-> FALSE, call |-> c]

SessionInit ==
  /\ onclose = [ch \in Channels |-> 0]
  /\ closeCalls = [c \in CloseCallIds |-> IdleCall]
  /\ queued = {}
  /\ calledCloseHandlers = FALSE
  /\ delivered = [connectionClosed |-> 0, cleanup |-> 0, bye |-> 0, byeReceived |-> 0]

\* Both managers after the negotiation: each holds its session
EstablishedInit ==
  /\ pendingPeers = [s \in Sides |-> NoPeerState]
  /\ connectedPeers = [s \in Sides |-> TRUE]
  /\ connectionState = [s \in Sides |-> "connected"]
  /\ readyState = [s \in Sides |-> [ch \in Channels |-> "open"]]
  /\ onconnectionstatechange = [s \in Sides |-> SessionHandler]
  /\ ondatachannel = [s \in Sides |-> FALSE]
  /\ onopen = [s \in Sides |-> [ch \in Channels |-> 0]]
  /\ waiting = [s \in Sides |-> << >>]
  /\ signal = [offer |-> "delivered", answer |-> "delivered"]
  /\ exchange = [s \in Sides |-> [offer |-> "none", answer |-> "none"]]
  /\ calls = [s \in Sides |-> [connected |-> 1, connectionFailed |-> 0, sessions |-> 1]]
  /\ result = [s \in Sides |-> "ok"]
  /\ transitions = [s \in Sides |-> 2]

\* await Promise.all([closeData, closeBinaryData, closeConn]) (line 694)
AwaitAll(r) ==
  IF r.pc = "waitAll" /\ r.data /\ r.binary /\ r.conn
  THEN [r EXCEPT !.pc = "returned"]
  ELSE r

\* A continuation of close() is due before any event is dispatched
MicrotaskPending == \E c \in CloseCallIds : closeCalls[c].pc = "sendClosed"

\* The next call of close(), when the bound allows one more
NextCall(c) ==
  /\ closeCalls[c].pc = "idle"
  /\ \A b \in CloseCallIds : b < c => closeCalls[b].pc # "idle"

\* close() up to its first suspension (lines 644-688): the three promises are
\* created, then sendClosed returns at once or waits for buffer space.
\* cs and rs are the states of the connection and of the channels.
\* Sets closeCalls, onclose and onconnectionstatechange.
close(c, cs, rs) ==
  /\ onclose' = [ch \in Channels |-> IF rs[ch] = "closed" THEN onclose[ch] ELSE c]
  /\ onconnectionstatechange' =
       IF cs = "closed" THEN onconnectionstatechange
       ELSE [onconnectionstatechange EXCEPT ![Local] = CloseHandler(c)]
  /\ \E bufferFull \in BOOLEAN :
       /\ bufferFull => rs["data"] = "open"
       /\ closeCalls' = [closeCalls EXCEPT ![c] =
            [ pc |-> IF bufferFull THEN "waitBuffer" ELSE "sendClosed",
              data |-> rs["data"] = "closed",
              binary |-> rs["binary"] = "closed",
              conn |-> cs = "closed" ]]

\* The application calls session.close()
userClose(c) ==
  /\ NextCall(c)
  /\ close(c, connectionState[Local], readyState[Local])
  /\ UNCHANGED << queued, calledCloseHandlers, delivered >>
  /\ UNCHANGED << pendingPeers, connectedPeers, connectionState, readyState,
                  ondatachannel, onopen, waiting, signal, exchange, calls, result, transitions >>
  /\ UNCHANGED << appVars, scopeVars, chunkerVars, eventVars >>

\* The peer's goodbye arrives on the control channel: handleStringData
\* (lines 341-362) calls close()
handleStringData(c) ==
  /\ NextCall(c)
  /\ ~MicrotaskPending
  /\ readyState[Local]["data"] = "open"
  /\ delivered.byeReceived = 0
  /\ delivered' = [delivered EXCEPT !.byeReceived = 1]
  /\ close(c, connectionState[Local], readyState[Local])
  /\ UNCHANGED << queued, calledCloseHandlers >>
  /\ UNCHANGED << pendingPeers, connectedPeers, connectionState, readyState,
                  ondatachannel, onopen, waiting, signal, exchange, calls, result, transitions >>
  /\ UNCHANGED << appVars, scopeVars, chunkerVars, eventVars >>

\* close() from the return of sendClosed to its last await (lines 690-694):
\* the goodbye is sent if the control channel is open and buffer space came
\* in time, then both channels and the connection are closed.  The platform
\* reports connectionState "closed" at once or with the event.
closeTransports(c) ==
  /\ closeCalls[c].pc \in {"sendClosed", "waitBuffer"}
  /\ \E spaceInTime \in BOOLEAN :
       /\ closeCalls[c].pc = "sendClosed" => spaceInTime
       /\ delivered' = IF spaceInTime /\ readyState[Local]["data"] = "open"
                       THEN [delivered EXCEPT !.bye = @ + 1]
                       ELSE delivered
  /\ readyState' = [readyState EXCEPT ![Local] =
       [ch \in Channels |-> IF @[ch] = "open" THEN "closing" ELSE @[ch]]]
  /\ IF connectionState[Local] = "closed"
     THEN /\ queued' = queued \cup { ch \in Channels : readyState[Local][ch] = "open" }
          /\ UNCHANGED connectionState
     ELSE /\ queued' = queued \cup { ch \in Channels : readyState[Local][ch] = "open" }
                              \cup {"connection"}
          /\ \E atOnce \in BOOLEAN :
               connectionState' = IF atOnce
                                  THEN [connectionState EXCEPT ![Local] = "closed"]
                                  ELSE connectionState
  /\ closeCalls' = [closeCalls EXCEPT ![c] = AwaitAll([@ EXCEPT !.pc = "waitAll"])]
  /\ UNCHANGED << onclose, calledCloseHandlers >>
  /\ UNCHANGED << pendingPeers, connectedPeers, onconnectionstatechange,
                  ondatachannel, onopen, waiting, signal, exchange, calls, result, transitions >>
  /\ UNCHANGED << appVars, scopeVars, chunkerVars, eventVars >>

\* Channel ch reports closed, after a local close() or because the peer
\* closed it; the onclose handler resolves the promise of the call that set it
channelClosed(ch) ==
  /\ ~MicrotaskPending
  /\ readyState[Local][ch] \in {"open", "closing"}
  /\ readyState' = [readyState EXCEPT ![Local][ch] = "closed"]
  /\ queued' = queued \ {ch}
  /\ closeCalls' =
       IF onclose[ch] = 0 THEN closeCalls
       ELSE [closeCalls EXCEPT ![onclose[ch]] =
               AwaitAll(IF ch = "data" THEN [@ EXCEPT !.data = TRUE]
                                       ELSE [@ EXCEPT !.binary = TRUE])]
  /\ UNCHANGED << onclose, calledCloseHandlers, delivered >>
  /\ UNCHANGED << pendingPeers, connectedPeers, connectionState, onconnectionstatechange,
                  ondatachannel, onopen, waiting, signal, exchange, calls, result, transitions >>
  /\ UNCHANGED << appVars, scopeVars, chunkerVars, eventVars >>

\* onClosed (lines 364-373) with the manager's onClose callback
\* (manager.ts 833-843).  Sets delivered, connectedPeers, calledCloseHandlers.
onClosed ==
  IF calledCloseHandlers
  THEN UNCHANGED << delivered, connectedPeers, calledCloseHandlers >>
  ELSE /\ delivered' = [delivered EXCEPT !.connectionClosed = @ + 1, !.cleanup = @ + 1]
       /\ connectedPeers' = [connectedPeers EXCEPT ![Local] = FALSE]
       /\ calledCloseHandlers' = TRUE

\* The connection reports closed, after a local close() or of its own
\* accord, and the registered handler runs: the handler of the constructor
\* (lines 170-185) calls close(), the handler of a close() call (678-684)
\* calls onClosed and resolves closeConn
transportClosed ==
  /\ ~MicrotaskPending
  /\ "connection" \in queued \/ connectionState[Local] # "closed"
  /\ connectionState' = [connectionState EXCEPT ![Local] = "closed"]
  /\ queued' = queued \ {"connection"}
  /\ LET h == onconnectionstatechange[Local]
     IN IF h.kind = "close"
        THEN /\ onClosed
             /\ closeCalls' = [closeCalls EXCEPT ![h.call] = AwaitAll([@ EXCEPT !.conn = TRUE])]
             /\ UNCHANGED << onclose, onconnectionstatechange >>
        ELSE /\ \E c \in CloseCallIds :
                  /\ NextCall(c)
                  /\ close(c, "closed", readyState[Local])
             /\ UNCHANGED << delivered, connectedPeers, calledCloseHandlers >>
  /\ UNCHANGED << pendingPeers, readyState, ondatachannel, onopen, waiting, signal, exchange,
                  calls, result, transitions >>
  /\ UNCHANGED << appVars, scopeVars, chunkerVars, eventVars >>

CloseNext ==
  \/ \E c \in CloseCallIds : userClose(c)
  \/ \E c \in CloseCallIds : handleStringData(c)
  \/ \E c \in CloseCallIds : closeTransports(c)
  \/ \E ch \in Channels : channelClosed(ch)
  \/ transportClosed

\* ------------------------------------------------------------------------
\* P2PConnection: listeners (part_003 576-642) and inbound binary data
\* (handleBinaryData 238-280, handleFileStream 282-339)
\* ------------------------------------------------------------------------
\* The events of the session that the model follows: the reserved fileStream
\* event and one event of the application
INTERNAL_BYE == "____internal_goodbye"

EventNames == {"fileStream", "msg", "error", "dataTimedOut", INTERNAL_BYE}

Listeners == {"l1", "l2"}

NoneRaised == [file |-> 0, data |-> 0, fileStream |-> 0, deadStream |-> 0]

\* A Set of listeners is the sequence of its members in insertion order,
\* which is the order in which it is iterated
Members(q) == { q[k] : k \in DOMAIN q }

\* Set.prototype.add
SetAdd(q, l) == IF l \in Members(q) THEN q ELSE Append(q, l)

\* Set.prototype.delete
SetDelete(q, l) == SelectSeq(q, LAMBDA x : x # l)

\* The session after construction: no listener is registered
EventsInit ==
  /\ events = [e \in EventNames |-> << >>]
  /\ oneShotEvents = [e \in EventNames |-> << >>]
  /\ raised = [id \in Ids |-> NoneRaised]
  /\ handling = << >>
  /\ called = [l \in Listeners |-> 0]
  /\ armed = [l \in Listeners |-> 0]
  /\ removed = [e \in EventNames |-> {}]

\* ------------------------------------------------------------------------
\* The sending side (part_003 466-490)
\* ------------------------------------------------------------------------
\* The buffers handed to sendRaw: 1, 2, ..., n for every n up to MaxSendLen
SendBuffers == { [i \in 1..n |-> i] : n \in 0..MaxSendLen }

\* A chunker whose session has sent nothing yet
SendInit ==
  /\ maxChunkSize \in FrameSizes
  /\ sent = {}
  /\ sending = [id \in Ids |-> IdleSend]
  /\ data \in [Ids -> SendBuffers \cup Buffers("b2")]
  /\ data["a1"] \in SendBuffers /\ data["b2"] \in Buffers("b2")
  /\ meta \in [Ids -> MetaValues \cup {FileMetadata}]
  /\ meta["b2"] = "null"
  /\ frames = [id \in Ids |-> << >>]
  /\ inFlight = [id \in Ids |-> {}]
  /\ chunks = [i \in {} |-> None]
  /\ streams = [i \in {} |-> None]
  /\ stream = [id \in Ids |-> [state |-> "none", out |-> <<>>, nth |-> 0]]
  /\ promoteRet = [id \in Ids |-> "none"]
  /\ ret = NoReturn
  /\ timedOut = [id \in Ids |-> 0]
  /\ sinceFrame = [id \in Ids |-> 0]
  /\ outOfOrder = [id \in Ids |-> FALSE]
  /\ assembled = [id \in Ids |-> <<>>]
  /\ seen = [id \in Ids |-> {}]
  /\ arrivals = [id \in Ids |-> 0]

waitTimeoutIgnored(t) ==
  /\ sending[t].pc = "waiting"
  /\ sending' = [sending EXCEPT ![t] = [@ EXCEPT !.pc = "loop", !.timedOut = TRUE]]
  /\ UNCHANGED inFlight

\* waitTimeout (lines 388-396) fires after 500 ms without bufferedamountlow:
\* the promise is rejected, waitForBinaryBuffer returns the error (lines
\* 416-422) and sendRaw returns it (lines 479-482).  Sets sending, inFlight.
waitTimeout(t) ==
  /\ sending[t].pc = "waiting"
  /\ sending' = [sending EXCEPT ![t] = [@ EXCEPT !.pc = "err", !.timedOut = TRUE]]
  /\ UNCHANGED inFlight

SendChunkLost(t, k) ==
  /\ UNCHANGED inFlight
  /\ sending' = [sending EXCEPT ![t] = [@ EXCEPT !.pc = "loop", !.next = k + 1]]

\* this._binaryData.send(chunk) (line 486) for the frame at position k.
\* Sets sending and inFlight.
SendChunk(t, k) ==
  /\ inFlight' = [inFlight EXCEPT ![t] = @ \cup {k}]
  /\ sending' = [sending EXCEPT ![t] = [@ EXCEPT !.pc = "loop", !.next = k + 1]]

\* One turn of the loop of sendRaw (lines 476-490) over the frames fr, at
\* position k: the generator is done and sendRaw returns success, or
\* waitForBinaryBuffer finds the buffered amount above the threshold and
\* waits, or the frame is written.  Sets sending and inFlight.
LoopTurn(t, fr, k) ==
  IF k > Len(fr)
  THEN /\ sending' = [sending EXCEPT ![t] = [@ EXCEPT !.pc = "ok"]]
       /\ UNCHANGED inFlight
  ELSE \E bufferFull \in BOOLEAN :
         IF bufferFull
         THEN /\ sending' = [sending EXCEPT ![t] = [@ EXCEPT !.pc = "waiting"]]
              /\ UNCHANGED inFlight
         ELSE SendChunk(t, k)

\* sendRaw(data, metadata) (lines 468-475) up to the end of the first turn of
\* its loop; the channel is open, so that send does not throw
sendRaw(t) ==
  /\ t \notin sent
  /\ sent' = sent \cup {t}
  /\ frames' = [frames EXCEPT ![t] =
                  chunkData(data[t], meta[t], maxChunkSize, uuidToBytes(t))]
  /\ LoopTurn(t, frames'[t], 1)
  /\ UNCHANGED << maxChunkSize, data, meta, chunks, streams, stream, promoteRet,
                  ret, timedOut, sinceFrame, outOfOrder, assembled, seen, arrivals >>
  /\ UNCHANGED << appVars, scopeVars, connectVars, sessionVars, eventVars >>

\* The loop of sendRaw takes the next frame from the generator
sendNextChunk(t) ==
  /\ sending[t].pc = "loop"
  /\ LoopTurn(t, frames[t], sending[t].next)
  /\ UNCHANGED << maxChunkSize, data, meta, sent, frames, chunks, streams, stream,
                  promoteRet, ret, timedOut, sinceFrame, outOfOrder, assembled, seen, arrivals >>
  /\ UNCHANGED << appVars, scopeVars, connectVars, sessionVars, eventVars >>

\* bufferedamountlow arrives in time (lines 398-406): the wait ends and the
\* frame is written
onBufferAmountLow(t) ==
  /\ sending[t].pc = "waiting"
  /\ SendChunk(t, sending[t].next)
  /\ UNCHANGED << maxChunkSize, data, meta, sent, frames, chunks, streams, stream,
                  promoteRet, ret, timedOut, sinceFrame, outOfOrder, assembled, seen, arrivals >>
  /\ UNCHANGED << appVars, scopeVars, connectVars, sessionVars, eventVars >>

\* No bufferedamountlow arrives within the 500 ms
bufferWaitTimedOut(t) ==
  /\ waitTimeout(t)
  /\ UNCHANGED << maxChunkSize, data, meta, sent, frames, chunks, streams, stream,
                  promoteRet, ret, timedOut, sinceFrame, outOfOrder, assembled, seen, arrivals >>
  /\ UNCHANGED << appVars, scopeVars, connectVars, sessionVars, eventVars >>

SendNext ==
  \/ sendRaw("a1")
  \/ sendNextChunk("a1")
  \/ onBufferAmountLow("a1")
  \/ bufferWaitTimedOut("a1")
  \/ \E t \in Ids : \E k \in inFlight[t] : receiveChunk(t, k)

\* A listener is appended to a Set: the iterations in progress over that Set
\* (those of the invocations for event e that are in the given loop) will
\* come to it, whether or not they had visited it before it was deleted
Appended(h, e, phase, l) ==
  [i \in DOMAIN h |-> IF h[i].event = e /\ h[i].phase = phase
                      THEN [h[i] EXCEPT !.visited = @ \ {l}]
                      ELSE h[i]]

\* once(event, callback) (lines 576-594)
once(e, l) ==
  /\ oneShotEvents' = [oneShotEvents EXCEPT ![e] = SetAdd(@, l)]
  /\ armed' = IF l \in Members(oneShotEvents[e]) THEN armed
              ELSE [armed EXCEPT ![l] = @ + 1]
  /\ handling' = IF l \in Members(oneShotEvents[e]) THEN handling
                 ELSE Appended(handling, e, "oneShot", l)
  /\ removed' = [removed EXCEPT ![e] = @ \ {l}]
  /\ UNCHANGED << events, raised, called >>
  /\ UNCHANGED << appVars, scopeVars, chunkerVars, connectVars, sessionVars >>

\* on(event, handler) (lines 596-616)
on(e, l) ==
  /\ events' = [events EXCEPT ![e] = SetAdd(@, l)]
  /\ handling' = IF l \in Members(events[e]) THEN handling
                 ELSE Appended(handling, e, "persistent", l)
  /\ removed' = [removed EXCEPT ![e] = @ \ {l}]
  /\ UNCHANGED << oneShotEvents, raised, called, armed >>
  /\ UNCHANGED << appVars, scopeVars, chunkerVars, connectVars, sessionVars >>

\* off(event, handler) (lines 619-642): the handler is deleted from _events
\* if it is there; otherwise a warning is logged
off(e, l) ==
  /\ events' = [events EXCEPT ![e] = SetDelete(@, l)]
  /\ removed' = [removed EXCEPT ![e] = @ \cup {l}]
  /\ UNCHANGED << oneShotEvents, raised, handling, called, armed >>
  /\ UNCHANGED << appVars, scopeVars, chunkerVars, connectVars, sessionVars >>

\* ReadableStream.tee(): the two branches of stream st.  A stream is named
\* by the path of branches that leads to it from the main stream << >>.
tee(st) == << Append(st, 0), Append(st, 1) >>

\* streams.push(...streams.pop()!.tee()), i times (lines 317-319)
RECURSIVE TeeLast(_, _)
TeeLast(ss, i) ==
  IF i <= 0 THEN ss
  ELSE TeeLast(SubSeq(ss, 1, Len(ss) - 1) \o tee(ss[Len(ss)]), i - 1)

\* (mutant) every listener is passed the main stream
FileStreamsShared(n) == [i \in 1..n |-> << >>]

\* The streams for n listeners (lines 303-320): the main stream for one,
\* otherwise the branches of mainStream.tee() with the last one teed again
\* n - 2 times
FileStreams(n) == IF n = 1 THEN << << >> >> ELSE TeeLast(tee(<< >>), n - 2)

\* The calls handleFileStream makes (lines 297-337): the persistent
\* listeners and then the one-shot ones, each with the metadata and the
\* stream at its position
HandedOut(metadata) ==
  LET listeners == events["fileStream"] \o oneShotEvents["fileStream"]
      ss == FileStreams(Len(listeners))
  IN [i \in 1..Len(listeners) |->
        [listener |-> listeners[i], metadata |-> metadata, stream |-> ss[i]]]

\* How often handleFileStream calls listener l: once for each registry that
\* holds it (lines 297-300)
FileStreamCalls(l) ==
  (IF l \in Members(events["fileStream"]) THEN 1 ELSE 0)
  + (IF l \in Members(oneShotEvents["fileStream"]) THEN 1 ELSE 0)

\* The binary channel's onmessage: handleBinaryData (lines 238-280) with
\* receiveChunk and, for a file whose streaming listeners exist,
\* handleFileStream (lines 282-339) with setDataIsStream
handleBinaryData(t, k) ==
  LET chunk == Frames(t)[k]
      header == parseHeaderFromBuffer(chunk)
      ab == AfterBuffered(chunk, header)
      r == ab.ret
      isFile == r.metadata.isSome /\ metadataIsForFile(r.metadata.value)
      toStream == /\ ~r.threw /\ isFile
                  /\ (events["fileStream"] # << >> \/ oneShotEvents["fileStream"] # << >>)
      p == mainStream(ab.chunks, r.id)
      done == ~r.threw /\ r.data.isSome
  IN /\ k \in inFlight[t]
     /\ inFlight' = [inFlight EXCEPT ![t] = @ \ {k}]
     /\ sinceFrame' = [sinceFrame EXCEPT ![header.id] = 0]
     /\ outOfOrder' = [outOfOrder EXCEPT ![t] = @ \/ \E j \in Received(t) : j > k]
     /\ IF header.id \in DOMAIN streams
        THEN \* isStream: already handled by a ReadableStream
             /\ handleStream(Payload(chunk), header)
             /\ UNCHANGED << chunks, promoteRet, eventVars, handed >>
        ELSE /\ ret' = r
             /\ chunks' = IF toStream THEN p.chunks ELSE ab.chunks
             /\ streams' = IF toStream THEN p.streams ELSE streams
             /\ stream' = IF toStream THEN p.stream ELSE stream
             /\ promoteRet' = IF toStream THEN p.promoteRet ELSE promoteRet
             /\ oneShotEvents' = IF toStream
                                 THEN [oneShotEvents EXCEPT !["fileStream"] = << >>]
                                 ELSE oneShotEvents
             /\ called' = IF toStream
                          THEN [l \in Listeners |-> called[l] + FileStreamCalls(l)]
                          ELSE called
             /\ raised' = [raised EXCEPT ![r.id] =
                  [ fileStream |-> @.fileStream + (IF toStream THEN 1 ELSE 0),
                    deadStream |-> @.deadStream
                                   + (IF toStream /\ ~p.started THEN 1 ELSE 0),
                    file |-> @.file + (IF done /\ isFile THEN 1 ELSE 0),
                    data |-> @.data + (IF done /\ ~isFile THEN 1 ELSE 0) ]]
             /\ handed' = IF toStream
                          THEN [handed EXCEPT ![r.id] = @ \o HandedOut(r.metadata.value)]
                          ELSE handed
             /\ UNCHANGED << events, handling, armed, removed >>
     /\ assembled' = IF ret'.data.isSome
                     THEN [assembled EXCEPT ![header.id] = Append(@, ret'.data.value)]
                     ELSE assembled
     /\ seen' = [seen EXCEPT ![header.id] =
                  IF ret'.data.isSome THEN {} ELSE @ \cup {header.chunkIndex}]
     /\ arrivals' = [arrivals EXCEPT ![t] = @ + 1]
     /\ UNCHANGED << maxChunkSize, data, meta, sent, sending, frames, timedOut >>
     /\ UNCHANGED << instance, readSize, scopeVars, connectVars, sessionVars >>

\* ------------------------------------------------------------------------
\* callHandlers (part_003 209-236)
\* ------------------------------------------------------------------------
\* The listeners that return a promise which settles later; the others
\* return at once, and awaiting them takes a microtask
AsyncListeners == {"l1"}

\* An invocation of callHandlers(event) that has entered the function
Entered(e) == [event |-> e, phase |-> "persistent", visited |-> {}, current |-> "none",
               invoked |-> {}]

\* A continuation of callHandlers is due before any event is dispatched
HandlerMicrotaskPending ==
  \E i \in DOMAIN handling :
    handling[i].phase # "done" /\ handling[i].current \notin AsyncListeners

\* Invocation i, in state r and with the one-shot registry os, goes on to its
\* next await: the next callback of the persistent loop (lines 215-223) or
\* of the one-shot loop (lines 226-233) is called, or the function returns.
\* A Set is iterated in insertion order and as it is at the time.
\* Sets handling (from h), called and oneShotEvents.
NextCallback(h, i, r, os) ==
  LET persistentLeft == IF r.phase = "persistent"
                        THEN SelectSeq(events[r.event], LAMBDA x : x \notin r.visited)
                        ELSE << >>
      oneShotVisited == IF r.phase = "oneShot" THEN r.visited ELSE {}
      oneShotLeft == SelectSeq(os[r.event], LAMBDA x : x \notin oneShotVisited)
  IN /\ oneShotEvents' = os
     /\ IF persistentLeft # << >>
        THEN LET l == Head(persistentLeft) IN
               /\ handling' = [h EXCEPT ![i] = [r EXCEPT !.visited = @ \cup {l},
                                                         !.current = l,
                                                         !.invoked = @ \cup {l}]]
               /\ called' = [called EXCEPT ![l] = @ + 1]
        ELSE IF oneShotLeft # << >>
        THEN LET l == Head(oneShotLeft) IN
               /\ handling' = [h EXCEPT ![i] = [r EXCEPT !.phase = "oneShot",
                                                         !.visited = oneShotVisited \cup {l},
                                                         !.current = l,
                                                         !.invoked = @ \cup {l}]]
               /\ called' = [called EXCEPT ![l] = @ + 1]
        ELSE /\ handling' = [h EXCEPT ![i] = [r EXCEPT !.phase = "done",
                                                       !.visited = {},
                                                       !.current = "none"]]
             /\ called' = called

\* A message for event e arrives on the control channel: handleStringData
\* (lines 341-362) calls callHandlers(e), which runs to its first await
callHandlers(e) ==
  /\ Len(handling) < MaxOccurrences
  /\ ~HandlerMicrotaskPending
  /\ NextCallback(Append(handling, Entered(e)), Len(handling) + 1, Entered(e),
                  oneShotEvents)
  /\ UNCHANGED << events, raised, armed, removed >>
  /\ UNCHANGED << appVars, scopeVars, chunkerVars, connectVars, sessionVars >>

\* The callback that invocation i awaits has settled (lines 222 and 233): a
\* one-shot callback is deleted now (line 234), and the loop goes on
awaitCallback(i) ==
  /\ i \in DOMAIN handling
  /\ handling[i].phase # "done"
  /\ LET r == handling[i]
         os == IF r.phase = "oneShot"
               THEN [oneShotEvents EXCEPT ![r.event] = SetDelete(@, r.current)]
               ELSE oneShotEvents
     IN NextCallback(handling, i, r, os)
  /\ UNCHANGED << events, raised, armed, removed >>
  /\ UNCHANGED << appVars, scopeVars, chunkerVars, connectVars, sessionVars >>

NeverGoodbye(e) == FALSE

\* messageData.event === INTERNAL_BYE (line 352)
IsGoodbye(e) == e = INTERNAL_BYE

\* The control channel's onmessage (lines 158-168) with a message that
\* parses and names event e: handleStringData closes the session on the
\* goodbye and hands every other event to callHandlers
onmessage(e, c) ==
  /\ readyState[Local]["data"] = "open"
  /\ IF IsGoodbye(e) THEN handleStringData(c) ELSE callHandlers(e)

\* The frame of a non-empty set of frame positions that was written first:
\* the channels are created ordered and reliable
Earliest(S) == CHOOSE k \in S : \A j \in S : k <= j

\* --- P2PConnection: the timeout callback handed to the chunker ---
\* The object a callback stored in a field of the chunker is called on: the
\* constructor hands over this.onDataTimedOut as a bare method (line 134) and
\* the chunker calls it as this._onDataTimeout(id) (binaryData.ts line 328)
CallbackReceiver == "BinaryChunker"

\* onDataTimedOut (lines 188-194) called on the object self.  On a session it
\* calls callHandlers("dataTimedOut", dataId) without awaiting it.  On any
\* other object the read of this.#logger throws a TypeError, for the private
\* name belongs to P2PConnection; the method is async, so the call returns a
\* rejected promise and nothing else happens.  Sets the listener variables.
onDataTimedOut(self) ==
  IF self = "P2PConnection"
  THEN /\ Len(handling) < MaxOccurrences
       /\ ~HandlerMicrotaskPending
       /\ NextCallback(Append(handling, Entered("dataTimedOut")), Len(handling) + 1,
                       Entered("dataTimedOut"), oneShotEvents)
       /\ UNCHANGED << events, raised, armed, removed >>
  ELSE UNCHANGED eventVars

\* The callback of createCleanupTimeout (binaryData.ts lines 326-340) in a
\* chunker that a session constructed
assemblyTimedOut(id) ==
  /\ id \in DOMAIN chunks
  /\ chunks[id].cleanupTimeout = 0
  /\ chunks' = MapDelete(chunks, id)
  /\ timedOut' = [timedOut EXCEPT ![id] = @ + 1]
  /\ onDataTimedOut(CallbackReceiver)
  /\ UNCHANGED << maxChunkSize, data, meta, sent, sending, frames, inFlight, streams,
                  stream, promoteRet, ret, sinceFrame, outOfOrder, assembled, seen, arrivals >>
  /\ UNCHANGED << appVars, scopeVars, connectVars, sessionVars >>

StallNext ==
  \/ \E l \in Listeners : on("dataTimedOut", l)
  \/ \E l \in Listeners : armed[l] < MaxRegistrations /\ once("dataTimedOut", l)
  \/ \E t \in Ids : inFlight[t] # {} /\ handleBinaryData(t, Earliest(inFlight[t]))
  \/ \E id \in Ids : assemblyTimedOut(id)
  \/ Tick

\* --- Two sessions: sends in flight and their arrival at the remote session ---
TransferNext ==
  \/ \E t \in Ids : sendRaw(t)
  \/ \E t \in Ids : sendNextChunk(t)
  \/ \E t \in Ids : onBufferAmountLow(t)
  \/ bufferWaitTimedOut("a1")
  \/ \E t \in Ids : inFlight[t] # {} /\ handleBinaryData(t, Earliest(inFlight[t]))
  \/ \E id \in Ids : assemblyTimedOut(id)
  \/ DOMAIN chunks # {} /\ Tick

\* --- P2PConnection: control messages as they arrive on the channel ---
\* What emit writes for the event "msg", what sendClosed writes, and texts
\* that no session writes
MsgText == "{\"event\":\"msg\",\"args\":[]}"
ByeText == "{\"event\":\"____internal_goodbye\",\"args\":[\"peer\"]}"
ControlTexts == {MsgText, ByeText, "{\"event\":", "", "null"}

\* The values the generic channel delivers to _data.onmessage: strings, and a
\* value that is not a string
DataValues == {[type |-> "string", text |-> x] : x \in ControlTexts}
              \cup {[type |-> "object", text |-> ""]}

\* The keys of InternalEvents (lines 26-47): the events the session raises
\* for its own listeners
InternalEventNames ==
  {"connectionClosed", "data", "file", "fileStream", "dataTimedOut", "error"}

\* Well-formed messages, written by a peer, that name an internal event
DataTimedOutText == "{\"event\":\"dataTimedOut\",\"args\":[\"x\"]}"
ErrorText == "{\"event\":\"error\",\"args\":[{}]}"
FileStreamText == "{\"event\":\"fileStream\",\"args\":[{},{}]}"
InternalTexts == {DataTimedOutText, ErrorText, FileStreamText}

\* JSON.parse(data) followed by the read of messageData.event (lines 344-352):
\* either throws, SyntaxError for a text that is not JSON and TypeError for
\* the read of a property of null
JSONparse(text) ==
  CASE text = MsgText -> [threw |-> FALSE, event |-> "msg"]
    [] text = ByeText -> [threw |-> FALSE, event |-> INTERNAL_BYE]
    [] text = DataTimedOutText -> [threw |-> FALSE, event |-> "dataTimedOut"]
    [] text = ErrorText -> [threw |-> FALSE, event |-> "error"]
    [] text = FileStreamText -> [threw |-> FALSE, event |-> "fileStream"]
    [] OTHER -> [threw |-> TRUE, event |-> ""]

\* The texts of ControlTexts that are not valid JSON
InvalidJSON == {"{\"event\":", ""}

catchCloses(c) == handleStringData(c)

\* The catch block of handleStringData (lines 358-361)
catch(c) == callHandlers("error")

\* _data.onmessage (lines 158-168) with the whole of handleStringData (lines
\* 341-362) for a string
dataOnmessage(d, c) ==
  /\ readyState[Local]["data"] = "open"
  /\ IF d.type # "string"
     THEN callHandlers("error")
     ELSE LET messageData == JSONparse(d.text)
          IN IF messageData.threw THEN catch(c)
             ELSE IF IsGoodbye(messageData.event) THEN handleStringData(c)
             ELSE callHandlers(messageData.event)

ControlNext ==
  \/ on("error", "l1")
  \/ on("msg", "l2")
  \/ \E d \in DataValues : \E c \in CloseCallIds : dataOnmessage(d, c)
  \/ \E i \in 1..MaxOccurrences : awaitCallback(i)
  \/ \E t \in Ids : inFlight[t] # {} /\ handleBinaryData(t, Earliest(inFlight[t]))
  \/ \E c \in CloseCallIds : closeTransports(c)

\* The peer writes well-formed messages that name internal events or the
\* application's event, while the application registers listeners for them;
\* no transfer is under way and no text is malformed
PeerNamedNext ==
  \/ on("dataTimedOut", "l1")
  \/ on("fileStream", "l1")
  \/ armed["l2"] < MaxRegistrations /\ once("error", "l2")
  \/ on("msg", "l2")
  \/ \E text \in InternalTexts \cup {MsgText} : \E c \in CloseCallIds :
       dataOnmessage([type |-> "string", text |-> text], c)
  \/ \E i \in 1..MaxOccurrences : awaitCallback(i)

\* The application registers listeners, once or persistently, at any time,
\* while occurrences of its event arrive
EventsNext ==
  \/ \E l \in Listeners : armed[l] < MaxRegistrations /\ once("msg", l)
  \/ \E l \in Listeners : on("msg", l)
  \/ callHandlers("msg")
  \/ \E i \in 1..MaxOccurrences : awaitCallback(i)

\* The same, with listeners being unsubscribed at any time; a listener that
\* was unsubscribed is not registered again
UnsubscribeNext ==
  \/ \E l \in Listeners \ removed["msg"] :
       armed[l] < MaxRegistrations /\ once("msg", l)
  \/ \E l \in Listeners \ removed["msg"] : on("msg", l)
  \/ callHandlers("msg")
  \/ \E i \in 1..MaxOccurrences : awaitCallback(i)
  \/ \E l \in Listeners : off("msg", l)

\* The application listens for the goodbye (l1) and for its own event (l2)
\* while messages of both names arrive and the session closes
GoodbyeNext ==
  \/ on(INTERNAL_BYE, "l1")
  \/ armed["l1"] < MaxRegistrations /\ once(INTERNAL_BYE, "l1")
  \/ on("msg", "l2")
  \/ \E e \in {"msg", INTERNAL_BYE} : \E c \in CloseCallIds : onmessage(e, c)
  \/ \E i \in 1..MaxOccurrences : awaitCallback(i)
  \/ \E c \in CloseCallIds : closeTransports(c)
  \/ \E ch \in Channels : channelClosed(ch)
  \/ transportClosed

DeliverNext ==
  \/ \E t \in Ids : \E k \in inFlight[t] : handleBinaryData(t, k)
  \/ \E l \in Listeners : on("fileStream", l)
  \/ once("fileStream", "l1")

AssemblyNext ==
  \/ \E t \in Ids : \E k \in inFlight[t] : receiveChunk(t, k)
  \/ setDataIsStream("a1")
  \/ cancelStream("a1")

TimedNext ==
  \/ \E t \in Ids : \E k \in inFlight[t] : receiveChunk(t, k)
  \/ \E id \in Ids : setDataIsStream(id)
  \/ \E id \in Ids : cancelStream(id)
  \/ \E id \in Ids : chunkTimeout(id)
  \/ \E id \in Ids : timeoutHandler(id)
  \/ Tick

\* ------------------------------------------------------------------------
\* RTC manager: cancellation scopes of the peers of one manager
\* ------------------------------------------------------------------------
\* The remote identities the manager deals with
Peers == {"X", "Y"}

\* The two AbortControllers of a PeerState
Scopes == {"tempStateCleanupAbort", "globalStateCleanupAbort"}

\* A listener registered for event ev by the negotiation with peerId, under
\* the signal of that peer's scope sc
Subscription(ev, peerId, sc) == [event |-> ev, peerId |-> peerId, scope |-> sc]

NoPeer == [phase |-> "absent", offerer |-> FALSE, failed |-> FALSE]

ScopesInit ==
  /\ peers = [p \in Peers |-> NoPeer]
  /\ subscriptions = {}
  /\ applied = [p \in Peers |-> {}]

ScopesIdle == UNCHANGED << appVars, chunkerVars, connectVars, sessionVars, eventVars >>

(* AbortController.abort() of scope sc of peerId: the Signaler's on (lines
   111-140 of signalLocalBrowser) and addEventListener registered each
   listener with { signal }, so the listeners of that signal are removed *)
abort(subs, peerId, sc) == { s \in subs : ~(s.peerId = peerId /\ s.scope = sc) }

connectToPeerOneScope(peerId) ==
  { Subscription("answer", peerId, "tempStateCleanupAbort"),
    Subscription("iceCandidate", peerId, "tempStateCleanupAbort"),
    Subscription("icecandidate", peerId, "globalStateCleanupAbort") }

\* The listeners connectToPeer registers (lines 1047-1084): answer and
\* iceCandidate on the Signaler, icecandidate on the connection
connectToPeerSubscriptions(peerId) ==
  { Subscription("answer", peerId, "tempStateCleanupAbort"),
    Subscription("iceCandidate", peerId, "globalStateCleanupAbort"),
    Subscription("icecandidate", peerId, "globalStateCleanupAbort") }

\* The listeners acceptOffer registers (lines 972-999)
acceptOfferSubscriptions(peerId) ==
  { Subscription("icecandidate", peerId, "globalStateCleanupAbort"),
    Subscription("iceCandidate", peerId, "globalStateCleanupAbort") }

\* _pendingPeers.has(peerId) || _connectedPeers.has(peerId)
HasPeer(peerId) == peers[peerId].phase # "absent"

\* connectToPeer(peerId) (lines 1025-1102) of a manager with several peers
requestPeer(peerId) ==
  /\ ~HasPeer(peerId)
  /\ peers' = [peers EXCEPT ![peerId] =
                 [phase |-> "pending", offerer |-> TRUE, failed |-> FALSE]]
  /\ subscriptions' = subscriptions \cup connectToPeerSubscriptions(peerId)
  /\ applied' = [applied EXCEPT ![peerId] = {}]
  /\ ScopesIdle

\* request.accept() for the offer of peerId (lines 926-1018); the offer is
\* set as the remote description of the new connection
acceptPeer(peerId) ==
  /\ ~HasPeer(peerId)
  /\ peers' = [peers EXCEPT ![peerId] =
                 [phase |-> "pending", offerer |-> FALSE, failed |-> FALSE]]
  /\ subscriptions' = subscriptions \cup acceptOfferSubscriptions(peerId)
  /\ applied' = [applied EXCEPT ![peerId] = {[event |-> "offer", sender |-> peerId]}]
  /\ ScopesIdle

anySenderApplies(peerId, sender) == TRUE

\* The listener made by onAnswer(peerId, connection) (lines 757-767) applies
\* the answer of sender
onAnswerApplies(peerId, sender) == sender = peerId

\* The listener made by onIceCandidate(peerId, connection) (lines 769-779)
\* applies the candidate of sender
onIceCandidateApplies(peerId, sender) == sender = peerId

\* The Signaler raises ev for a message of sender: every listener registered
\* for ev runs, and those of the peers in applying apply the message to
\* their connection
Raised(ev, sender, applying) ==
  [p \in Peers |->
     applied[p] \cup
       { [event |-> ev, sender |-> sender] :
           s \in { x \in subscriptions :
                     x.event = ev /\ x.peerId = p /\ x.peerId \in applying } }]

\* An answer of sender arrives
answerReceived(sender) ==
  /\ applied' = Raised("answer", sender, { p \in Peers : onAnswerApplies(p, sender) })
  /\ UNCHANGED << peers, subscriptions >>
  /\ ScopesIdle

\* An ICE candidate of sender arrives
iceCandidateReceived(sender) ==
  /\ applied' = Raised("iceCandidate", sender,
                     { p \in Peers : onIceCandidateApplies(p, sender) })
  /\ UNCHANGED << peers, subscriptions >>
  /\ ScopesIdle

\* Both descriptions are set on the connection held for peerId
Described(peerId) ==
  IF peers[peerId].offerer
  THEN [event |-> "answer", sender |-> peerId] \in applied[peerId]
  ELSE [event |-> "offer", sender |-> peerId] \in applied[peerId]

\* sendOff for peerId (lines 807-860): the session is constructed, the
\* short-lived scope is aborted and the peer moves to _connectedPeers
handoff(peerId) ==
  /\ peers[peerId].phase = "pending"
  /\ Described(peerId)
  /\ subscriptions' = abort(subscriptions, peerId, "tempStateCleanupAbort")
  /\ peers' = [peers EXCEPT ![peerId].phase = "connected"]
  /\ UNCHANGED applied
  /\ ScopesIdle

\* The connection held for the pending peerId reports failed (lines 902-918)
connectionFailed(peerId) ==
  /\ peers[peerId].phase = "pending"
  /\ Described(peerId)
  /\ ~peers[peerId].failed
  /\ peers' = [peers EXCEPT ![peerId].failed = TRUE]
  /\ UNCHANGED << subscriptions, applied >>
  /\ ScopesIdle

\* The onClose callback of the session of peerId (lines 833-843)
onClose(peerId) ==
  /\ peers[peerId].phase = "connected"
  /\ peers' = [peers EXCEPT ![peerId] = NoPeer]
  /\ subscriptions' = abort(subscriptions, peerId, "globalStateCleanupAbort")
  /\ UNCHANGED applied
  /\ ScopesIdle

ScopesNext ==
  \/ \E p \in Peers : requestPeer(p)
  \/ \E p \in Peers : acceptPeer(p)
  \/ \E p \in Peers : answerReceived(p)
  \/ \E p \in Peers : iceCandidateReceived(p)
  \/ \E p \in Peers : handoff(p)
  \/ \E p \in Peers : connectionFailed(p)
  \/ \E p \in Peers : onClose(p)

vars == << chunkerVars, connectVars, sessionVars, eventVars, scopeVars, appVars >>

\* Two transfers whose frames arrive in any order and interleaving, closer
\* together than one tick; the first may be promoted and cancelled
AssemblyInit == ChunkerInit(Ids) /\ ManagerInit /\ SessionInit /\ EventsInit /\ ScopesInit /\ AppInit

SpecAssembly == AssemblyInit /\ [][AssemblyNext]_vars

\* One transfer whose frames arrive at any time, or never
TimedInit == ChunkerInit({"a1"}) /\ ManagerInit /\ SessionInit /\ EventsInit /\ ScopesInit /\ AppInit

SpecTimed == TimedInit /\ [][TimedNext]_vars

\* Two managers negotiate one connection; no transfer is under way
ChunkerIdle ==
  /\ ChunkerInit({})
  /\ maxChunkSize = HEADER_BYTE_SIZE + 1
  /\ data["a1"] = << >>
  /\ meta["a1"] = "null"

ConnectInit == ChunkerIdle /\ ManagerInit /\ SessionInit /\ EventsInit /\ ScopesInit /\ AppInit

SpecConnect == ConnectInit /\ [][ConnectNext]_vars

SpecReject == ConnectInit /\ [][RejectNext]_vars

\* Two managers, each free to connect to the other and to accept its offer
SpecGlare == ConnectInit /\ [][GlareNext]_vars

\* A session receives one transfer, with any metadata, its frames in any
\* order, while fileStream listeners are registered at any time
DeliverInit ==
  /\ ChunkerInitWith({"a1"}, MetaValues \cup {FileMetadata})
  /\ EstablishedInit /\ SessionInit /\ EventsInit /\ ScopesInit /\ AppInit

SpecDeliver == DeliverInit /\ [][DeliverNext]_vars

\* An established session whose application registers listeners and whose
\* peer emits events
EventsSpecInit == ChunkerIdle /\ EstablishedInit /\ SessionInit /\ EventsInit /\ ScopesInit /\ AppInit

SpecEvents == EventsSpecInit /\ [][EventsNext]_vars

StallInit ==
  /\ ChunkerInitWith({"a1"}, {"null"})
  /\ EstablishedInit /\ SessionInit /\ EventsInit /\ ScopesInit /\ AppInit

SpecStall == StallInit /\ [][StallNext]_vars

ControlInit ==
  /\ ChunkerInitWith({"a1"}, {"null"})
  /\ EstablishedInit /\ SessionInit /\ EventsInit /\ ScopesInit /\ AppInit

SpecControl == ControlInit /\ [][ControlNext]_vars

SpecGoodbye == EventsSpecInit /\ [][GoodbyeNext]_vars

SpecPeerNamed == EventsSpecInit /\ [][PeerNamedNext]_vars

SpecUnsubscribe == EventsSpecInit /\ [][UnsubscribeNext]_vars

\* A session sends one buffer, of any length up to MaxSendLen, to its peer
SendingInit == SendInit /\ EstablishedInit /\ SessionInit /\ EventsInit /\ ScopesInit /\ AppInit

SpecSend == SendingInit /\ [][SendNext]_vars

TransferInit ==
  /\ SendingInit
  /\ Len(data["a1"]) \in {0, MaxLen, 2 * MaxLen}
  /\ maxChunkSize = HEADER_BYTE_SIZE + 2

SpecTransfer == TransferInit /\ [][TransferNext]_vars

\* An established session is closed, by the application, by the peer's
\* goodbye, by the transport, or by several of them
CloseInit == ChunkerIdle /\ EstablishedInit /\ SessionInit /\ EventsInit /\ ScopesInit /\ AppInit

SpecClose == CloseInit /\ [][CloseNext]_vars

ScopesSpecInit == ChunkerIdle /\ ManagerInit /\ SessionInit /\ EventsInit /\ ScopesInit /\ AppInit

SpecScopes == ScopesSpecInit /\ [][ScopesNext]_vars

\* An application constructs a chunker with any frame size and, when it got
\* one, sends a buffer through it
ConstructInit == UnbuiltInit /\ ManagerInit /\ SessionInit /\ EventsInit /\ ScopesInit

SpecConstruct == ConstructInit /\ [][ConstructNext]_vars

\* A source of any length up to MaxStreamLen is sent through streamData,
\* read in pieces of any size, or through chunkData in one piece
StreamDataInit == StreamSourceInit /\ ManagerInit /\ SessionInit /\ EventsInit /\ ScopesInit

SpecStreamData == StreamDataInit /\ [][StreamDataNext]_vars

\* One transfer whose frames arrive in any order, some of them twice
DuplicatesInit == ChunkerInit({"a1"}) /\ ManagerInit /\ SessionInit /\ EventsInit /\ ScopesInit /\ AppInit

SpecDuplicates == DuplicatesInit /\ [][DuplicatesNext]_vars

\* The same with the smallest frame size, which gives the most frames
StreamedInit == DuplicatesInit /\ maxChunkSize = HEADER_BYTE_SIZE + 1

SpecStreamed == StreamedInit /\ [][StreamedNext]_vars

\* One transfer of full length, sent with any metadata or with none, whose
\* frames arrive in any order and at any time
MetadataInit ==
  /\ ChunkerInitWith({"a1"}, JsonValues \cup {Undefined})
  /\ maxChunkSize = HEADER_BYTE_SIZE + 2
  /\ Len(data["a1"]) = MaxLen
  /\ ManagerInit /\ SessionInit /\ EventsInit /\ ScopesInit /\ AppInit

SpecMetadata == MetadataInit /\ [][TimedNext]_vars

\* ------------------------------------------------------------------------
\* Properties of the chunker
\* ------------------------------------------------------------------------
\* A transfer that was never promoted to a stream and never timed out
Buffered(t) == stream[t].state = "none" /\ timedOut[t] = 0

\* C1: whatever the order in which the frames of a (buffered) transfer are
\* fed to receiveChunk, the call that receives the last of them returns the
\* assembled data, byte-equal to the buffer that was chunked.
C1_ReassembleAnyOrder ==
  [][ \A t \in Ids :
        (inFlight[t] # {} /\ inFlight'[t] = {} /\ Buffered(t))
        => (ret'.id = t /\ ret'.data = Some(data[t]) /\ ~ret'.threw) ]_vars

\* C1 witness: a full-length transfer completed although its frames arrived
\* out of order
C1_Witness ==
  /\ ret.id = "a1" /\ ret.data = Some(data["a1"])
  /\ Len(data["a1"]) = MaxLen
  /\ outOfOrder["a1"]
  /\ Buffered("a1")

\* What the chunker holds for transfer u
Held(u) ==
  << IF u \in DOMAIN chunks THEN << chunks[u] >> ELSE << >>,
     IF u \in DOMAIN streams THEN << streams[u] >> ELSE << >>,
     stream[u], assembled[u] >>

\* C2: with the frames of two transfers interleaved in any order, each
\* transfer completes exactly once with its own bytes, and a frame of one
\* transfer leaves what the chunker holds for the other untouched.
C2_NoCrossingStreams ==
  /\ [](\A t \in Ids :
          /\ Len(assembled[t]) <= 1
          /\ \A i \in 1..Len(assembled[t]) : assembled[t][i] = data[t]
          /\ (inFlight[t] = {} /\ Buffered(t)) => assembled[t] = << data[t] >>)
  /\ [][ \A t \in Ids : \A u \in Ids \ {t} :
           inFlight'[t] # inFlight[t] => Held(u)' = Held(u) ]_vars

\* C2 witness: the first transfer completed while frames of the second were
\* pending, and then the second completed too
C2_Witness ==
  /\ assembled["a1"] = << data["a1"] >> /\ Len(data["a1"]) = MaxLen
  /\ assembled["b2"] = << data["b2"] >>
  /\ ret.id = "b2" /\ outOfOrder["a1"] /\ outOfOrder["b2"]

\* C8: a buffered transfer never outlives the timeout after its most recent
\* frame: its timer runs from that frame, and when it is due the state kept
\* for the transfer is removed and the notification is made once.
C8_BufferedTimeout ==
  /\ [](\A id \in DOMAIN chunks :
          /\ sinceFrame[id] <= DataTimeoutTicks
          /\ chunks[id].cleanupTimeout = DataTimeoutTicks - sinceFrame[id])
  /\ [][ \A id \in Ids :
           (timedOut'[id] # timedOut[id] /\ id \notin DOMAIN streams)
           => /\ id \in DOMAIN chunks
              /\ sinceFrame[id] = DataTimeoutTicks
              /\ id \notin DOMAIN chunks' /\ id \notin DOMAIN streams'
              /\ timedOut'[id] = timedOut[id] + 1 ]_vars

\* C8 witness: a buffered transfer timed out in mid-transfer
C8_Witness ==
  /\ timedOut["a1"] = 1 /\ stream["a1"].state = "none"
  /\ "a1" \notin DOMAIN chunks
  /\ Received("a1") # {} /\ inFlight["a1"] # {}

\* C9: when the timeout of a transfer expires, the chunker holds no entry for
\* that id afterwards, and a promoted stream ends with an error.
C9_TimeoutDiscardsState ==
  [][ \A id \in Ids :
        timedOut'[id] # timedOut[id]
        => /\ id \notin DOMAIN chunks' /\ id \notin DOMAIN streams'
           /\ (id \in DOMAIN streams => stream'[id].state = "errored") ]_vars

\* C10: every frame of a transfer restarts its timeout, so the timeout fires
\* only when a whole timeout has passed since the most recent frame.
C10_FrameRestartsTimeout ==
  [][ \A id \in Ids :
        timedOut'[id] # timedOut[id] => sinceFrame[id] >= DataTimeoutTicks ]_vars

\* ------------------------------------------------------------------------
\* Properties of the negotiation
\* ------------------------------------------------------------------------
\* Side s has seen every readiness signal: its transport is connected and
\* both of its channels are present and open
Ready(s) ==
  /\ connectionState[s] = "connected"
  /\ \A ch \in Channels : readyState[s][ch] = "open"

\* C3: after connectToPeer and accept, each manager calls its connected
\* listeners exactly once and constructs a single session, however often the
\* transport reports connected or the channels report open: never more than
\* once, and once on a side that has seen every readiness signal.
C3_ConnectedExactlyOnce ==
  \A s \in Sides :
    /\ calls[s].connected <= 1 /\ calls[s].sessions <= 1
    /\ Ready(s) => (calls[s].connected = 1 /\ calls[s].sessions = 1)

\* C4: a session is constructed, and connected fires, only at a moment when
\* the transport is connected and both channels are open.
C4_SessionOnlyWhenReady ==
  [][ \A s \in Sides :
        (calls'[s].sessions # calls[s].sessions \/ calls'[s].connected # calls[s].connected)
        => /\ connectionState'[s] = "connected"
           /\ \A ch \in Channels : readyState'[s][ch] = "open" ]_vars

\* C5: on either side, once the transport has reported connected and both
\* channels are present and open, in whichever order, the session has been
\* constructed and connected has fired (the handler's continuations run in
\* the step of the event that completes the readiness).
C5_ReadyImpliesSession ==
  \A s \in Sides : Ready(s) => (connectedPeers[s] /\ calls[s].connected >= 1)


\* ------------------------------------------------------------------------
\* Properties of closing a session
\* ------------------------------------------------------------------------
\* The connection and both channels have reported closed and no continuation
\* of close() is due: nothing further happens to the session
SessionClosed ==
  /\ connectionState[Local] = "closed"
  /\ \A ch \in Channels : readyState[Local][ch] = "closed"
  /\ queued = {}
  /\ \A c \in CloseCallIds : closeCalls[c].pc \notin {"sendClosed", "waitBuffer"}

\* C6: however a session comes to be closed, connectionClosed is delivered
\* to its listeners exactly once and the manager's cleanup callback is
\* invoked: never twice, and once by the time everything has reported closed.
C6_ClosedExactlyOnce ==
  /\ delivered.connectionClosed <= 1
  /\ SessionClosed => (delivered.connectionClosed = 1 /\ delivered.cleanup >= 1)

\* C7: every call of close() returns: once the connection and the channels
\* have reported closed, no call that was made is still waiting.
C7_CloseAlwaysCompletes ==
  SessionClosed => \A c \in CloseCallIds : closeCalls[c].pc \in {"idle", "returned"}

\* ------------------------------------------------------------------------
\* Properties of promoted streams and of promotion
\* ------------------------------------------------------------------------
\* The bytes a reader gets from the chunks enqueued on a stream, in read order
RECURSIVE ReadAll(_)
ReadAll(out) == IF out = << >> THEN << >> ELSE Head(out) \o ReadAll(Tail(out))

\* Transfer t was promoted once and its stream was not cancelled
Streamed(t) == stream[t].nth = 1 /\ stream[t].state # "cancelled"

\* C11: whatever the order in which the frames of a promoted transfer are
\* fed to receiveChunk, what can be read from its stream is always the
\* beginning of the original bytes, and once all frames are in it is all of
\* them, the stream is closed and the PendingStream is deleted.
C11_StreamFidelity ==
  \A t \in Ids : Streamed(t) =>
    /\ Len(ReadAll(stream[t].out)) <= Len(data[t])
    /\ ReadAll(stream[t].out) = SubSeq(data[t], 1, Len(ReadAll(stream[t].out)))
    /\ inFlight[t] = {} => /\ ReadAll(stream[t].out) = data[t]
                           /\ stream[t].state = "closed"
                           /\ t \notin DOMAIN streams

\* C11 witness: a full-length transfer was read to its end from a stream
\* whose frames arrived out of order, in more than one chunk
C11_Witness ==
  /\ stream["a1"].state = "closed" /\ "a1" \notin DOMAIN streams
  /\ Len(data["a1"]) = MaxLen /\ ReadAll(stream["a1"].out) = data["a1"]
  /\ Len(stream["a1"].out) >= 2 /\ outOfOrder["a1"]

\* C12: setDataIsStream returns an error, not a stream, whenever the chunker
\* holds no pending assembly for the id (never received, already promoted,
\* completed or timed out).
C12_PromotionNeedsAssembly ==
  [][ \A id \in Ids :
        (promoteRet'[id] # promoteRet[id] /\ id \notin DOMAIN chunks)
        => promoteRet'[id] = "err" ]_vars

\* ------------------------------------------------------------------------
\* Properties of the delivery of inbound transfers
\* ------------------------------------------------------------------------
\* The deliveries made for transfer t, over all routes
Deliveries(t) == raised[t].fileStream + raised[t].file + raised[t].data

\* C13: every inbound transfer is delivered by exactly one route: never by
\* two, by one once all its frames are in, as a stream or a file event only
\* when its metadata has the file shape, and as a data event only otherwise.
C13_ExactlyOneRoute ==
  \A t \in sent :
    /\ Deliveries(t) <= 1
    /\ inFlight[t] = {} => Deliveries(t) = 1
    /\ raised[t].data = 1 => ~metadataIsForFile(meta[t])
    /\ (raised[t].file = 1 \/ raised[t].fileStream = 1) => metadataIsForFile(meta[t])

\* ------------------------------------------------------------------------
\* Properties of the frames a sender produces
\* ------------------------------------------------------------------------
CeilDiv(n, d) == (n + d - 1) \div d

\* C14: a non-empty buffer of n bytes, chunked with max frame size F, gives
\* exactly 1 + ceil(n / (F - 21)) frames, the metadata frame first and only
\* the last frame marked final; 6 bytes with F = 22 give exactly 7 frames.
C14_FrameCount ==
  \A t \in sent : Len(data[t]) > 0 =>
    /\ Len(frames[t]) = 1 + CeilDiv(Len(data[t]), maxChunkSize - HEADER_BYTE_SIZE)
    /\ parseHeaderFromBuffer(frames[t][1]).chunkIndex = 0
    /\ \A k \in 1..Len(frames[t]) :
         parseHeaderFromBuffer(frames[t][k]).isFinal <=> k = Len(frames[t])
    /\ (Len(data[t]) = 6 /\ maxChunkSize = 22) => Len(frames[t]) = 7

\* C15: every frame chunkData or streamData produces, the metadata frame
\* included, is at most maxChunkSize bytes long.
C15_FrameWithinMax ==
  \A t \in sent : \A k \in 1..Len(frames[t]) : Len(frames[t][k]) <= maxChunkSize

\* ------------------------------------------------------------------------
\* Properties of duplicate and failed negotiations
\* ------------------------------------------------------------------------
\* C16: while the identity is pending or established, connectToPeer and
\* accept return an error and leave the manager's state as it is, and no step
\* gives the identity a second transport or a second session.
C16_DuplicateRejected ==
  [][ \A s \in Sides : (pendingPeers[s].present \/ connectedPeers[s]) =>
        /\ result'[s] # result[s] =>
             /\ result'[s] = "err"
             /\ UNCHANGED << pendingPeers, connectedPeers, connectionState, readyState,
                             onconnectionstatechange, ondatachannel, onopen, waiting,
                             signal, exchange, calls >>
        /\ ~(connectionState'[s] = "new" /\ connectionState[s] # "new")
        /\ calls'[s].sessions > calls[s].sessions => ~connectedPeers[s] ]_vars

\* Both sides were asked again for an identity they hold, one of them with the
\* session established and the other with the negotiation pending
C16_Witness ==
  /\ result["offerer"] = "err" /\ result["answerer"] = "err"
  /\ connectedPeers["offerer"] /\ calls["offerer"].sessions = 1
  /\ pendingPeers["answerer"].present /\ calls["answerer"].sessions = 0

\* C17: when the transport of a pending negotiation fails, connectionFailed
\* fires for the remote identity, and from then on no session is constructed
\* from that negotiation.
C17_FailedNeverConnects ==
  [][ \A s \in Sides :
        /\ (pendingPeers[s].present /\ connectionState[s] # "failed"
            /\ connectionState'[s] = "failed")
           => calls'[s].connectionFailed = calls[s].connectionFailed + 1
        /\ connectionState[s] = "failed"
           => calls'[s].sessions = calls[s].sessions ]_vars

\* C18: once connectionFailed has fired for an identity, or its session has
\* been handed off, _pendingPeers holds no entry for it.
C18_PendingEntryDeleted ==
  \A s \in Sides :
    (calls[s].connectionFailed > 0 \/ calls[s].sessions > 0 \/ connectedPeers[s])
    => ~pendingPeers[s].present

\* ------------------------------------------------------------------------
\* Properties of the manager's bookkeeping after a session has closed
\* ------------------------------------------------------------------------
\* C19: when an established session has closed, the manager's cleanup has
\* run and holds nothing for the identity any more, so that the guard of
\* connectToPeer and accept does not reject it as a duplicate.
C19_CleanupOnClose ==
  SessionClosed => /\ delivered.cleanup >= 1
                   /\ ~connectedPeers[Local]
                   /\ ~pendingPeers[Local].present
                   /\ ~PendingOrConnected(Local)

\* ------------------------------------------------------------------------
\* Properties of listeners
\* ------------------------------------------------------------------------
\* C20: a listener registered with once, and not with on, is invoked for
\* exactly one occurrence of the event: never more often than it was
\* registered, however closely the occurrences follow each other and also
\* while its own asynchronous invocation is still running.
C20_OnceInvokedOnce ==
  \A l \in Listeners : l \notin Members(events["msg"]) => called[l] <= armed[l]

\* C21: after off(event, handler) has returned, and until the handler is
\* registered again, the handler is not invoked, whichever way it had been
\* registered.
C21_OffStopsDelivery ==
  [][ \A l \in removed["msg"] : called'[l] = called[l] ]_vars

\* C22: listeners see the events of a channel in the order of arrival of the
\* messages: no listener is invoked for a message after it was invoked for a
\* message that arrived later, also when listeners are asynchronous.
C22_ArrivalOrder ==
  [][ \A i \in DOMAIN handling : \A l \in Listeners :
        (l \notin handling[i].invoked /\ l \in handling'[i].invoked)
        => \A j \in DOMAIN handling : j > i => l \notin handling[j].invoked ]_vars

\* C23: the goodbye is never dispatched to a listener registered through on
\* or once: no callHandlers invocation is ever made for it, and the step
\* that receives it invokes no listener and starts a call of close().
C23_GoodbyeNotDispatched ==
  [][ /\ \A i \in DOMAIN handling' : handling'[i].event # INTERNAL_BYE
      /\ delivered'.byeReceived # delivered.byeReceived
         => /\ called' = called
            /\ handling' = handling
            /\ \E c \in CloseCallIds :
                 closeCalls[c].pc = "idle" /\ closeCalls'[c].pc # "idle" ]_vars

\* The goodbye was received with a listener registered for its name in both
\* registries; that listener was never invoked, a listener of another event
\* was, and close() is under way
C23_Witness ==
  /\ delivered.byeReceived = 1
  /\ "l1" \in Members(events[INTERNAL_BYE])
  /\ "l1" \in Members(oneShotEvents[INTERNAL_BYE])
  /\ called["l1"] = 0 /\ called["l2"] > 0
  /\ closeCalls[1].pc # "idle"

\* ------------------------------------------------------------------------
\* Properties of backpressure
\* ------------------------------------------------------------------------
\* C24: a send whose wait for buffer space timed out has failed: sendRaw has
\* returned the error, and from then on its call does nothing more and no
\* further frame of the transfer is written to the channel.
C24_TimedOutSendAbandoned ==
  [][ \A t \in Ids :
        /\ sending'[t].timedOut => sending'[t].pc = "err"
        /\ sending[t].pc = "err" => /\ sending'[t] = sending[t]
                                    /\ inFlight'[t] \subseteq inFlight[t] ]_vars

\* A send was abandoned after some of its frames had been written and
\* received, with frames left over that were never written
C24_Witness ==
  /\ sending["a1"].pc = "err" /\ sending["a1"].timedOut
  /\ sending["a1"].next = 3 /\ Len(frames["a1"]) >= 4
  /\ inFlight["a1"] = {}

\* ------------------------------------------------------------------------
\* Properties of malformed control messages
\* ------------------------------------------------------------------------
\* The last callHandlers invocation entered
LastHandling(h) == h[Len(h)]

\* The invocations of callHandlers made for the error event
ErrorReports == {i \in DOMAIN handling : handling[i].event = "error"}

\* C25: the arrival of a control message that is not valid JSON enters
\* callHandlers for the error event, which invokes a listener of that event
\* when there is one, and changes nothing else of the session: no close
\* processing starts and the channels, the transport and the reassembly state
\* stay as they are.  A well-formed message that arrives after such a report
\* is dispatched to its own event, and a binary transfer completed after it
\* is delivered.
C25_InvalidJsonReported ==
  [][ /\ \A text \in InvalidJSON :
           (\E c \in CloseCallIds : dataOnmessage([type |-> "string", text |-> text], c))
           => /\ Len(handling') = Len(handling) + 1
              /\ LastHandling(handling').event = "error"
              /\ Members(events["error"]) # {}
                   => LastHandling(handling').invoked # {}
              /\ UNCHANGED << sessionVars, connectVars, chunkerVars >>
      /\ ErrorReports # {}
           => /\ (\E c \in CloseCallIds :
                     dataOnmessage([type |-> "string", text |-> MsgText], c))
                 => /\ Len(handling') = Len(handling) + 1
                    /\ LastHandling(handling').event = "msg"
                    /\ Members(events["msg"]) # {}
                         => LastHandling(handling').invoked # {}
              /\ \A t \in Ids :
                   (inFlight[t] # {} /\ inFlight'[t] = {}
                      /\ handleBinaryData(t, Earliest(inFlight[t])))
                   => Deliveries(t) = 0 /\ raised'[t].data = 1 ]_vars

\* An error report whose listener was invoked, then a dispatch of "msg" whose
\* listener was invoked, with the transfer delivered, the channels open and
\* no call of close started
C25_Witness ==
  /\ \E i \in ErrorReports : \E j \in DOMAIN handling :
       /\ j > i
       /\ "l1" \in handling[i].invoked
       /\ handling[j].event = "msg" /\ "l2" \in handling[j].invoked
  /\ raised["a1"].data = 1
  /\ \A ch \in Channels : readyState[Local][ch] = "open"
  /\ \A c \in CloseCallIds : closeCalls[c].pc = "idle"

\* ------------------------------------------------------------------------
\* Properties of stalled transfers on a session
\* ------------------------------------------------------------------------
\* The listeners registered for an event through on or once
Registered(e) == Members(events[e]) \cup Members(oneShotEvents[e])

\* C26: when the reassembly of a transfer times out on a session,
\* callHandlers is entered for dataTimedOut, and when listeners are
\* registered for it one of them is invoked at once (the others follow as
\* the invocation proceeds).
C26_TimeoutReachesListeners ==
  [][ \A id \in Ids :
        timedOut'[id] > timedOut[id]
        => /\ Len(handling') = Len(handling) + 1
           /\ LastHandling(handling').event = "dataTimedOut"
           /\ Registered("dataTimedOut") # {}
                => \E l \in Registered("dataTimedOut") : called'[l] = called[l] + 1 ]_vars

\* ------------------------------------------------------------------------
\* Properties of a transfer from sendRaw to the remote data event
\* ------------------------------------------------------------------------
\* sendRaw has returned success for t and all its frames have arrived
Arrived(t) == sending[t].pc = "ok" /\ inFlight[t] = {}

\* The metadata argument of the data event for metadata m sent: JSON null
\* and absent metadata arrive as none
AsOption(m) == IF m = "null" THEN None ELSE Some(m)

\* C27 (as stated): a send that returned success, all of whose frames have
\* arrived, has raised exactly one data event at the remote session, with
\* the bytes that were sent.
C27_EverySendRaisesData ==
  \A t \in Ids : Arrived(t) => raised[t].data = 1 /\ assembled[t] = << data[t] >>

\* C27 (amended): no transfer raises more than one data event, and a data
\* event carries the bytes and the metadata that were sent; a send that
\* returned success, whose metadata is not of the reserved file shape and
\* whose reassembly did not time out, has raised its data event once all
\* its frames have arrived.
C27_PlainSendRaisesData ==
  [][ \A t \in Ids :
        /\ raised'[t].data <= 1
        /\ raised'[t].data > raised[t].data
             => /\ ret'.id = t
                /\ ret'.data = Some(data[t])
                /\ ret'.metadata = AsOption(meta[t])
        /\ (Arrived(t)' /\ ~metadataIsForFile(meta[t]) /\ timedOut'[t] = 0)
             => raised'[t].data = 1 /\ assembled'[t] = << data[t] >> ]_vars

\* Both sends returned success, all frames of both arrived in order without
\* a timeout, and each transfer raised its data event
C27_Witness ==
  /\ \A t \in Ids : Arrived(t) /\ raised[t].data = 1 /\ timedOut[t] = 0
  /\ meta["a1"] = "obj" /\ Len(frames["a1"]) >= 3
  /\ outOfOrder = [id \in Ids |-> FALSE]

\* ------------------------------------------------------------------------
\* Properties of a rejected connection request
\* ------------------------------------------------------------------------
\* No signaling message is on its way
SignalerQuiet == signal.offer # "sent" /\ signal.answer # "sent"

\* C28: once the request has been rejected and nothing is on its way through
\* the Signaler any more, the connectionFailed listeners of the manager that
\* requested the connection have been invoked.
C28_RejectFailsRequester ==
  (result["answerer"] = "rejected" /\ SignalerQuiet)
    => calls["offerer"].connectionFailed >= 1

\* ------------------------------------------------------------------------
\* Properties of the cancellation scopes
\* ------------------------------------------------------------------------
\* The subscriptions registered under scope sc of peer p
ScopeOf(p, sc) == { s \in subscriptions : s.peerId = p /\ s.scope = sc }

\* The two ICE-candidate subscriptions of peer p
IceSubscriptions(p) ==
  { Subscription("iceCandidate", p, "globalStateCleanupAbort"),
    Subscription("icecandidate", p, "globalStateCleanupAbort") }

\* What peer p has registered while the manager holds it: a pending offerer
\* its answer subscription, a pending or connected peer its ICE subscriptions
Live(p) ==
  /\ ScopeOf(p, "tempStateCleanupAbort")
       = IF peers[p].phase = "pending" /\ peers[p].offerer
         THEN { Subscription("answer", p, "tempStateCleanupAbort") } ELSE {}
  /\ ScopeOf(p, "globalStateCleanupAbort")
       = IF peers[p].phase # "absent" THEN IceSubscriptions(p) ELSE {}

\* C29: the short-lived scope of a peer holds only its answer subscription
\* and the long-lived scope only its ICE-candidate subscriptions.  The
\* handoff of a peer removes exactly the subscriptions of its short-lived
\* scope, the close of its connection exactly those of its long-lived scope,
\* and no other step removes a subscription: the ICE subscriptions outlive
\* the handoff and every subscription of another scope or another peer stays.
C29_ScopesRetireOwnSubscriptions ==
  [][ \A p \in Peers :
        LET temp == ScopeOf(p, "tempStateCleanupAbort")
            global == ScopeOf(p, "globalStateCleanupAbort")
            gone == subscriptions \ subscriptions'
            handedOff == peers[p].phase = "pending" /\ peers'[p].phase = "connected"
            closedNow == peers[p].phase = "connected" /\ peers'[p].phase = "absent"
        IN /\ Live(p) /\ Live(p)'
           /\ handedOff => gone = temp
           /\ closedNow => gone = global
           /\ temp \cap gone # {} => handedOff
           /\ global \cap gone # {} => closedNow ]_vars

\* X was handed off as offerer and its connection has closed, all of its
\* subscriptions are gone, and Y, handed off meanwhile, still has its ICE
\* subscriptions
C29_Witness ==
  /\ peers["X"].phase = "absent"
  /\ [event |-> "answer", sender |-> "X"] \in applied["X"]
  /\ peers["Y"].phase = "connected" /\ peers["Y"].offerer
  /\ subscriptions = IceSubscriptions("Y")

\* ------------------------------------------------------------------------
\* Properties of the isolation of peers
\* ------------------------------------------------------------------------
\* All the manager holds for peer p
PeerView(p) == << peers[p], applied[p], { s \in subscriptions : s.peerId = p } >>

\* C30: only messages whose sender is X are applied to the connection
\* negotiated with X, and a step that is the arrival of an answer or an ICE
\* candidate of another identity, or the failure or the close of another
\* identity's connection, leaves all the manager holds for X as it is.
C30_PeersIsolated ==
  [][ \A p \in Peers :
        /\ \A m \in applied'[p] : m.sender = p
        /\ \A q \in Peers \ {p} :
             (answerReceived(q) \/ iceCandidateReceived(q) \/ connectionFailed(q)
                \/ onClose(q))
             => PeerView(p)' = PeerView(p) ]_vars

\* X is established with its answer and a candidate applied, Y's
\* negotiation has failed after its own answer and candidate were applied
C30_Witness ==
  /\ peers["X"].phase = "connected"
  /\ applied["X"] = { [event |-> "answer", sender |-> "X"],
                      [event |-> "iceCandidate", sender |-> "X"] }
  /\ peers["Y"].phase = "pending" /\ peers["Y"].failed
  /\ applied["Y"] = { [event |-> "answer", sender |-> "Y"],
                      [event |-> "iceCandidate", sender |-> "Y"] }

\* ------------------------------------------------------------------------
\* Properties of the constructor
\* ------------------------------------------------------------------------
\* C31: constructing a chunker fails for every max frame size of 21 bytes or
\* less and succeeds, with that frame size, for every size of 22 or more.
C31_ConstructionThreshold ==
  [][ (instance.state = "none" /\ instance'.state # "none" /\ instance'.requested.isSome)
      => LET n == instance'.requested.value
         IN /\ n <= 21 => (instance'.state = "threw" /\ maxChunkSize' = maxChunkSize)
            /\ n >= 22 => (instance'.state = "constructed" /\ maxChunkSize' = n) ]_vars

\* C31 witness: a chunker constructed with 22 bytes has carried a buffer of
\* full length
C31_Witness ==
  /\ instance = [state |-> "constructed", requested |-> Some(22)]
  /\ ret.data = Some(data["a1"])
  /\ Len(data["a1"]) = MaxLen

\* ------------------------------------------------------------------------
\* Properties of the metadata
\* ------------------------------------------------------------------------
\* receiveChunk has just returned for a frame of transfer t whose metadata
\* frame (position 1) has arrived
ReturnedWithMetadata(t) == inFlight'[t] # inFlight[t] /\ 1 \notin inFlight'[t]

\* C32 (as stated): once the metadata frame has arrived receiveChunk returns
\* the metadata that was passed to chunkData, whatever JSON value it is, and
\* absent metadata when none was passed.
C32_MetadataReturned ==
  [][ \A t \in Ids :
        ReturnedWithMetadata(t)
        => ret'.metadata = (IF meta[t] = Undefined THEN None ELSE Some(meta[t])) ]_vars

\* C32 (amended): while the transfer is assembled (not promoted, not timed
\* out), once the metadata frame has arrived receiveChunk returns the
\* metadata that was passed when it is not null, and absent metadata when
\* null or nothing was passed.
C32_MetadataReturnedWhileAssembling ==
  [][ \A t \in Ids :
        (ReturnedWithMetadata(t) /\ Buffered(t))
        => ret'.metadata = (IF meta[t] \in {Undefined, "null"} THEN None ELSE Some(meta[t])) ]_vars

\* C32 witness: the assembled transfer is returned with the string it was
\* sent with, although the metadata frame was not the first to arrive
C32_Witness ==
  /\ ret.id = "a1" /\ ret.data = Some(data["a1"])
  /\ meta["a1"] = "str" /\ ret.metadata = Some("str")
  /\ outOfOrder["a1"]
  /\ Buffered("a1")

\* ------------------------------------------------------------------------
\* Properties of the completion of an assembly
\* ------------------------------------------------------------------------
\* The index of the final frame of transfer t
FinalIndex(t) == Len(frames[t]) - 1

\* C33: a receiveChunk call on the assembly of a transfer returns data
\* exactly when, with the frame of this call, the final frame has been seen
\* and the number of distinct indices received is the final index + 1; a
\* frame that arrives twice counts once, and the data returned is the
\* payload alone, without the bytes of the metadata frame.
C33_CompleteExactlyWhenAllSeen ==
  [][ \A t \in Ids : \A k \in inFlight[t] :
        (inFlight'[t] = inFlight[t] \ {k} /\ arrivals'[t] = arrivals[t] + 1 /\ Buffered(t))
        => LET now == seen[t] \cup {k - 1}
               complete == /\ FinalIndex(t) \in now
                           /\ Cardinality(now) = FinalIndex(t) + 1
           IN /\ ret'.data.isSome <=> complete
              /\ complete => ret'.data = Some(data[t])
              /\ ~ret'.threw ]_vars

\* C33 witness: a full-length transfer was returned once, by the call that
\* brought its last missing frame, after some frame had arrived twice
C33_Witness ==
  /\ ret.id = "a1" /\ ret.data = Some(data["a1"])
  /\ Len(data["a1"]) = MaxLen
  /\ assembled["a1"] = << data["a1"] >>
  /\ arrivals["a1"] > Len(frames["a1"])

\* ------------------------------------------------------------------------
\* Properties of a promoted stream
\* ------------------------------------------------------------------------
\* The payloads of the frames of transfer t behind the metadata frame, by
\* chunk index
PayloadFrames(t) == [i \in 1..(Len(frames[t]) - 1) |-> Payload(frames[t][i + 1])]

IsPrefix(a, b) == Len(a) <= Len(b) /\ \A i \in 1..Len(a) : a[i] = b[i]

\* C34: what a promoted stream has emitted is, at every moment, the chunks
\* of index 1, 2, ..., n in that order, each once: no chunk is emitted before
\* every chunk of lower index, and none twice.
C34_StreamInIndexOrder ==
  \A t \in sent : IsPrefix(stream[t].out, PayloadFrames(t))

\* C34 witness: a stream has emitted the whole of a transfer of several
\* chunks whose frames arrived out of order, one of them twice
C34_Witness ==
  /\ stream["a1"].state = "closed"
  /\ stream["a1"].out = PayloadFrames("a1")
  /\ Len(PayloadFrames("a1")) >= 3
  /\ outOfOrder["a1"]
  /\ arrivals["a1"] > Len(frames["a1"])

\* ------------------------------------------------------------------------
\* Properties of the sender's last frame
\* ------------------------------------------------------------------------
\* A frame that consists of a header alone
HeaderOnly(frame) == Len(frame) = HEADER_BYTE_SIZE

\* C35: when the source ends while the staging buffer is empty (its length
\* is 0 or a multiple of the frame payload size), the frames are the
\* metadata frame, the full frames, none marked final, and then one
\* header-only frame marked final; 10 bytes at frame size 22 give 12 frames
\* and no bytes give one frame behind the metadata frame.
C35_EmptyFinalFrame ==
  \A t \in sent :
    LET payloadSize == maxChunkSize - HEADER_BYTE_SIZE
        n == Len(data[t])
        fr == frames[t]
    IN /\ n % payloadSize = 0
          => /\ Len(fr) = (n \div payloadSize) + 2
             /\ HeaderOnly(fr[Len(fr)])
             /\ parseHeaderFromBuffer(fr[Len(fr)]).isFinal
             /\ \A i \in 2..(Len(fr) - 1) :
                  /\ Len(fr[i]) = maxChunkSize
                  /\ ~parseHeaderFromBuffer(fr[i]).isFinal
                  /\ parseHeaderFromBuffer(fr[i]).chunkIndex = i - 1
       /\ (n = 10 /\ maxChunkSize = 22) => Len(fr) = 12
       /\ n = 0 => Len(fr) = 2

\* C35 witness: a 10-byte source read three bytes at a time was sent at
\* frame size 22 in 12 frames, the last one header-only, and was received
C35_Witness ==
  /\ "a1" \in sent /\ Len(data["a1"]) = 10 /\ maxChunkSize = 22 /\ readSize = 3
  /\ Len(frames["a1"]) = 12
  /\ HeaderOnly(frames["a1"][12])
  /\ ret.data = Some(data["a1"])

\* ------------------------------------------------------------------------
\* Properties of the promotion of an assembly
\* ------------------------------------------------------------------------
\* C36: the promotion of a pending assembly keeps every payload chunk that
\* was received before it, the final one included, at the slot of its index
\* counted from next expected index 1, and the call that brings the last
\* frame of the transfer leaves the stream closed with all chunks emitted in
\* index order, which together are the original payload.
C36_PromotionLosesNothing ==
  [][ \A t \in Ids :
        /\ (stream[t].nth = 0 /\ stream'[t].nth = 1)
           => /\ streams'[t].currentChunkIndex = 1
              /\ DOMAIN streams'[t].buffers = { i - 1 : i \in seen[t] \ {0} }
              /\ \A i \in seen[t] \ {0} : streams'[t].buffers[i - 1] = PayloadFrames(t)[i]
              /\ streams'[t].hasFinal <=> FinalIndex(t) \in seen[t]
        /\ (stream'[t].nth = 1 /\ stream'[t].state # "cancelled"
            /\ inFlight[t] # {} /\ inFlight'[t] = {})
           => /\ stream'[t].state = "closed"
              /\ stream'[t].out = PayloadFrames(t)
              /\ ReadAll(stream'[t].out) = data[t] ]_vars

\* C36 witness: a full-length transfer was promoted when all its payload
\* chunks, the final one included, had been received; the stream holds
\* them at slots 0, 1, ... and waits for the next frame to emit them
C36_Witness ==
  /\ stream["a1"] = [state |-> "readable", out |-> << >>, nth |-> 1]
  /\ Len(data["a1"]) = MaxLen /\ maxChunkSize = HEADER_BYTE_SIZE + 1
  /\ inFlight["a1"] = {1}
  /\ "a1" \in DOMAIN streams
  /\ streams["a1"].hasFinal
  /\ DOMAIN streams["a1"].buffers = 0..(FinalIndex("a1") - 1)

\* ------------------------------------------------------------------------
\* Properties of the fan-out to fileStream listeners
\* ------------------------------------------------------------------------
IsProperPrefix(a, b) == Len(a) < Len(b) /\ SubSeq(b, 1, Len(a)) = a

\* C37: when a transfer is promoted while N >= 1 fileStream listeners are
\* registered, persistent and one-shot counted together, each of them is
\* called exactly once, with the transfer's metadata and with a stream that
\* no other listener was passed and that was not teed away, and once the
\* last frame is in the stream behind all of them is closed with the
\* complete bytes.
C37_EveryListenerOwnStream ==
  [][ \A t \in Ids :
        /\ (raised'[t].fileStream = raised[t].fileStream + 1 /\ promoteRet'[t] = "ok")
           => LET N == Len(events["fileStream"]) + Len(oneShotEvents["fileStream"])
                  new == SubSeq(handed'[t], Len(handed[t]) + 1, Len(handed'[t]))
              IN /\ N >= 1 /\ Len(new) = N
                 /\ \A l \in Listeners :
                      /\ Cardinality({ i \in 1..N : new[i].listener = l })
                           = Cardinality({ reg \in {"on", "once"} :
                               l \in Members(IF reg = "on" THEN events["fileStream"]
                                             ELSE oneShotEvents["fileStream"]) })
                      /\ called'[l] - called[l] = Cardinality({ i \in 1..N : new[i].listener = l })
                 /\ \A i \in 1..N : new[i].metadata = meta[t]
                 /\ \A i, j \in 1..N :
                      i # j => /\ new[i].stream # new[j].stream
                               /\ ~IsProperPrefix(new[i].stream, new[j].stream)
        /\ (promoteRet'[t] = "ok" /\ inFlight[t] # {} /\ inFlight'[t] = {})
           => /\ stream'[t].state = "closed"
              /\ ReadAll(stream'[t].out) = data[t]
              /\ Len(handed'[t]) >= 1 ]_vars

\* C37 witness: three listeners were each passed a stream of their own for
\* a full-length file, and the stream behind them is closed with all bytes
C37_Witness ==
  /\ Len(handed["a1"]) = 3
  /\ promoteRet["a1"] = "ok"
  /\ stream["a1"].state = "closed"
  /\ ReadAll(stream["a1"].out) = data["a1"] /\ Len(data["a1"]) = MaxLen

\* C38: a stream that was passed to a fileStream listener has either ended
\* (closed after the last chunk, ended with the timeout error, or cancelled
\* by its reader) or has its PendingStream with a running timer in the
\* chunker, whenever the listener was registered and whichever frame the
\* promotion was attempted on.
C38_StreamHasStateBehind ==
  \A t \in Ids :
    handed[t] # << >>
    => \/ stream[t].state \in {"closed", "errored", "cancelled"}
       \/ /\ stream[t].state = "readable"
          /\ t \in DOMAIN streams
          /\ streams[t].cleanupTimeout > 0

\* Both managers called connectToPeer for the other before either answered
BothOffered == \A s \in Sides : exchange[s].offer # "none"

\* Manager s is through with the negotiation: the session is established or
\* connectionFailed was raised
Resolved(s) ==
  \/ connectedPeers[s] /\ ~PendingOnly(s)
  \/ calls[s].connectionFailed > 0

\* No call and no event changes anything any more: every later connectToPeer
\* and accept returns the error it returned before, and no message, state
\* change or channel event is due
Quiescent == ~ENABLED << GlareNext >>_vars

\* Once both managers have offered, both stay pending and unanswered
BothOfferedStaysPending ==
  [][ BothOffered
      => /\ BothOffered'
         /\ \A s \in Sides : /\ PendingOnly(s)' /\ ~Resolved(s)'
                              /\ exchange'[s].answer = "none" ]_vars

\* C39: when both managers have called connectToPeer for each other, the
\* negotiation does not come to rest with a manager still pending: in a
\* state where nothing can change any more, each manager has an established
\* session or has raised connectionFailed.
C39_SimultaneousConnectResolves ==
  (BothOffered /\ Quiescent) => \A s \in Sides : Resolved(s)

\* C40: a control message from the peer that names an internal event invokes
\* no listener registered for that event, neither in the step that receives
\* it nor later; with no transfer under way and no malformed text, which are
\* the local conditions, no listener of an internal event is ever invoked.
C40_InternalEventsNotRemote ==
  [][ /\ \A text \in InternalTexts :
           (\E c \in CloseCallIds : dataOnmessage([type |-> "string", text |-> text], c))
           => called' = called
      /\ \A i \in DOMAIN handling' :
           handling'[i].event \in InternalEventNames => handling'[i].invoked = {} ]_vars
====
